---------------------------- MODULE Spec2Model ----------------------------
(***************************************************************************)
(* A model of the Novacal signal-processing backend (Go):                  *)
(*   timeseries.go : windowed reads and the extrema-preserving downsampler *)
(*   fir.go        : cycle stacking, resampling, reference synthesis       *)
(*                                                                         *)
(* float64 values are modelled as exact rationals <<num, den>> in lowest   *)
(* terms with den > 0; <<0, 0>> stands for NaN (the result of 0/0) and     *)
(* <<1, 0>>, <<-1, 0>> for +Inf and -Inf (the results of x/0).             *)
(* Slices are sequences; the code's 0-based index i is element i+1.        *)
(*                                                                         *)
(* Every operation is run by one request at a time.  The state is the      *)
(* position of the running operation (pc), its inputs (arg), the local     *)
(* variables of the function it is executing (loc) and its outcome (ret).  *)
(***************************************************************************)
EXTENDS Integers, Sequences, FiniteSets, TLC

VARIABLES pc, arg, loc, ret

vars == <<pc, arg, loc, ret>>

None == [status |-> "none"]

-----------------------------------------------------------------------------
(* Exact arithmetic standing for float64.                                  *)

Abs(x) == IF x < 0 THEN -x ELSE x

RECURSIVE Gcd(_, _)
Gcd(a, b) == IF b = 0 THEN a ELSE Gcd(b, a % b)

NaN == <<0, 0>>
PosInf == <<1, 0>>
NegInf == <<-1, 0>>
IsFinite(r) == r[2] # 0

Sign(n) == IF n > 0 THEN 1 ELSE IF n < 0 THEN -1 ELSE 0

\* n/d with the common factor g cancelled and the sign in the numerator.
Reduced(n, d, g) == IF d < 0 THEN <<(-n) \div g, (-d) \div g>>
                    ELSE <<n \div g, d \div g>>

\* n/d in lowest terms; n/0 is the infinity of the sign of n, and 0/0 is NaN.
Norm(n, d) ==
    IF d = 0 THEN <<Sign(n), 0>> ELSE Reduced(n, d, Gcd(Abs(n), Abs(d)))

R(k) == <<k, 1>>

RNeg(a) == <<-a[1], a[2]>>
\* The sum and the product of two finite values, computed over the least
\* common denominator (g is the common factor of the denominators) and with
\* the common factors g1, g2 cancelled first.
AddOver(a, b, g) ==
    Norm(a[1] * (b[2] \div g) + b[1] * (a[2] \div g), a[2] * (b[2] \div g))
FiniteAdd(a, b) == AddOver(a, b, Gcd(a[2], b[2]))
MulOver(a, b, g1, g2) ==
    <<(a[1] \div g1) * (b[1] \div g2), (a[2] \div g2) * (b[2] \div g1)>>
FiniteMul(a, b) == MulOver(a, b, Gcd(Abs(a[1]), b[2]), Gcd(Abs(b[1]), a[2]))
\* Inf + Inf = Inf, Inf + (-Inf) = NaN, Inf + x = Inf, NaN + x = NaN.
RAdd(a, b) == IF a[2] = 1 /\ b[2] = 1 THEN <<a[1] + b[1], 1>>
              ELSE IF a[2] # 0 /\ b[2] # 0 THEN FiniteAdd(a, b)
              ELSE IF a[2] = 0 /\ b[2] = 0 THEN (IF a[1] = b[1] THEN a ELSE NaN)
              ELSE IF a[2] = 0 THEN a
              ELSE b
RSub(a, b) == RAdd(a, <<-b[1], b[2]>>)
\* Inf * 0 = NaN, NaN * x = NaN.
RMul(a, b) == IF a[2] = 1 /\ b[2] = 1 THEN <<a[1] * b[1], 1>>
              ELSE IF a[2] # 0 /\ b[2] # 0 THEN FiniteMul(a, b)
              ELSE <<Sign(a[1]) * Sign(b[1]), 0>>
\* a / b: x/0 is an infinity for x # 0 and NaN for x = 0; x/Inf = 0;
\* Inf/Inf = NaN.  A zero carries no sign: x/0 has the sign of x.
RDiv(a, b) == IF a[2] # 0 /\ b[2] # 0 /\ b[1] # 0
              THEN FiniteMul(a, <<Sign(b[1]) * b[2], Abs(b[1])>>)
              ELSE IF a = NaN \/ b = NaN \/ (a[2] = 0 /\ b[2] = 0) THEN NaN
              ELSE IF a[2] = 0 THEN (IF b[1] < 0 THEN <<-a[1], 0>> ELSE a)
              ELSE IF b[2] = 0 THEN <<0, 1>>
              ELSE <<Sign(a[1]), 0>>
RAbs(a)    == <<Abs(a[1]), a[2]>>
\* Comparisons with NaN are false, as in IEEE-754; an infinity (denominator
\* 0) compares by its sign against every finite value.
RLess(a, b) == /\ a # NaN /\ b # NaN
               /\ IF a[2] = b[2] THEN a[1] < b[1]
                  ELSE a[1] * b[2] < b[1] * a[2]
RGreater(a, b) == RLess(b, a)
\* int(x) for finite x: truncation toward zero.
RTrunc(a) == IF a[1] >= 0 THEN a[1] \div a[2] ELSE -((-a[1]) \div a[2])

At(s, i) == s[i + 1]

RatSeq(s) == [i \in 1..Len(s) |-> R(s[i])]

Min2(a, b) == IF a < b THEN a ELSE b


RECURSIVE Insert(_, _)
Insert(sorted, x) ==
    IF sorted = <<>> THEN <<x>>
    ELSE IF x <= Head(sorted) THEN <<x>> \o sorted
    ELSE <<Head(sorted)>> \o Insert(Tail(sorted), x)

RECURSIVE SortInts(_)
\* sort.Ints: ascending order.
SortInts(s) == IF s = <<>> THEN <<>> ELSE Insert(SortInts(Tail(s)), Head(s))

-----------------------------------------------------------------------------
(* timeseries.go: dynamicDownsample                                        *)

\* A variant of ScanBin whose test for a new minimum compares against the
\* running maximum.
RECURSIVE ScanBinWrongCompare(_, _, _, _)
ScanBinWrongCompare(values, j, end, s) ==
    IF j >= end THEN s
    ELSE LET val == At(values, j)
             lower == RLess(val, s.maxVal)
             m == [s EXCEPT !.sum = RAdd(s.sum, val),
                            !.count = s.count + 1,
                            !.minVal = IF lower THEN val ELSE s.minVal,
                            !.minIdx = IF lower THEN j ELSE s.minIdx]
             higher == RGreater(val, m.maxVal)
         IN  ScanBinWrongCompare(values, j + 1, end,
                     [m EXCEPT !.maxVal = IF higher THEN val ELSE m.maxVal,
                               !.maxIdx = IF higher THEN j ELSE m.maxIdx])

\* The scan of one bin, from index j to end-1, updating the running
\* extrema, sum and count.
RECURSIVE ScanBin(_, _, _, _)
ScanBin(values, j, end, s) ==
    IF j >= end THEN s
    ELSE LET val == At(values, j)
             lower == RLess(val, s.minVal)
             m == [s EXCEPT !.sum = RAdd(s.sum, val),
                            !.count = s.count + 1,
                            !.minVal = IF lower THEN val ELSE s.minVal,
                            !.minIdx = IF lower THEN j ELSE s.minIdx]
             higher == RGreater(val, m.maxVal)
         IN  ScanBin(values, j + 1, end,
                     [m EXCEPT !.maxVal = IF higher THEN val ELSE m.maxVal,
                               !.maxIdx = IF higher THEN j ELSE m.maxIdx])

\* 0.05, the fraction of the bin's range an extremum must deviate from the
\* average by to be kept (as the exact rational 1/20).
ExtremaFraction == <<1, 20>>

\* A variant of BinIndices that keeps the maximum only when the minimum was
\* not kept (an else-if in place of the second if).
BinIndicesElseIf(start, s, avg) ==
    LET threshold == RMul(ExtremaFraction, RAbs(RSub(s.maxVal, s.minVal)))
        first == IF s.minIdx # start /\ s.maxIdx # start THEN <<start>> ELSE <<>>
    IN  IF /\ s.minIdx # start
           /\ RGreater(RAbs(RSub(s.minVal, avg)), threshold)
        THEN Append(first, s.minIdx)
        ELSE IF /\ s.maxIdx # start
                /\ s.maxIdx # s.minIdx
                /\ RGreater(RAbs(RSub(s.maxVal, avg)), threshold)
             THEN Append(first, s.maxIdx) ELSE first

\* The indices the bin keeps, before sorting: the first point, the minimum,
\* the maximum.
BinIndices(start, s, avg) ==
    LET threshold == RMul(ExtremaFraction, RAbs(RSub(s.maxVal, s.minVal)))
        first == IF s.minIdx # start /\ s.maxIdx # start THEN <<start>> ELSE <<>>
        withMin == IF /\ s.minIdx # start
                      /\ RGreater(RAbs(RSub(s.minVal, avg)), threshold)
                   THEN Append(first, s.minIdx) ELSE first
    IN  IF /\ s.maxIdx # start
           /\ s.maxIdx # s.minIdx
           /\ RGreater(RAbs(RSub(s.maxVal, avg)), threshold)
        THEN Append(withMin, s.maxIdx) ELSE withMin

\* A variant of AverageAppended without the test on the time of the average.
AverageAppendedAlways(times, indices, avgTime) == Len(indices) > 0

\* A variant of AverageAppended with >= in place of >.
AverageAppendedNotStrict(times, indices, avgTime) ==
    /\ Len(indices) > 0
    /\ ~RLess(avgTime, At(times, indices[Len(indices)]))

\* Whether the average point is appended after the bin's kept points.
AverageAppended(times, indices, avgTime) ==
    /\ Len(indices) > 0
    /\ RGreater(avgTime, At(times, indices[Len(indices)]))

\* One iteration of the loop over bins: the bin [start, end) of the input and
\* what it appends to downsampledTimes and downsampledValues.
ProcessBin(times, values, binSize, start) ==
    LET length == Len(times)
        end == IF start + binSize > length THEN length ELSE start + binSize
        s == ScanBin(values, start + 1, end,
                     [minVal |-> At(values, start), maxVal |-> At(values, start),
                      minIdx |-> start, maxIdx |-> start,
                      sum |-> At(values, start), count |-> 1])
        avg == RDiv(s.sum, R(s.count))
        avgTime == RDiv(RAdd(At(times, start), At(times, end - 1)), R(2))
        indices == SortInts(BinIndices(start, s, avg))
        kept == [k \in 1..Len(indices) |-> indices[k]]
        withAvg == AverageAppended(times, indices, avgTime)
    IN  [start |-> start, end |-> end,
         minVal |-> s.minVal, maxVal |-> s.maxVal,
         minIdx |-> s.minIdx, maxIdx |-> s.maxIdx,
         avg |-> avg, avgTime |-> avgTime, indices |-> indices,
         times |-> [k \in 1..Len(kept) |-> At(times, kept[k])]
                   \o (IF withAvg THEN <<avgTime>> ELSE <<>>),
         values |-> [k \in 1..Len(kept) |-> At(values, kept[k])]
                   \o (IF withAvg THEN <<avg>> ELSE <<>>)]

\* A variant of DownsampleNoOp with < in place of <=.
DownsampleNoOpBelowTwo(times, binSize) == Len(times) < 2 \/ binSize <= 1

\* The early return: nothing to downsample.
DownsampleNoOp(times, binSize) == Len(times) <= 2 \/ binSize <= 1

\* The locals of dynamicDownsample before the first bin.
NoBin == [start |-> -1, end |-> -1, minVal |-> R(0), maxVal |-> R(0),
          minIdx |-> -1, maxIdx |-> -1, avg |-> R(0), avgTime |-> R(0),
          indices |-> <<>>, times |-> <<>>, values |-> <<>>]

DownsampleLocals == [start |-> 0, downsampledTimes |-> <<>>,
                     downsampledValues |-> <<>>, bin |-> NoBin]

\* dynamicDownsample is entered: the early return, or the loop is set up.
DownsampleEnter ==
    /\ pc = "dynamicDownsample"
    /\ IF DownsampleNoOp(arg.times, arg.binSize)
       THEN /\ ret' = [status |-> "ok", times |-> arg.times, values |-> arg.values]
            /\ pc' = "returned"
            /\ UNCHANGED loc
       ELSE /\ pc' = "bins"
            /\ loc' = DownsampleLocals
            /\ UNCHANGED ret
    /\ UNCHANGED arg

\* One iteration of the loop over bins.
DownsampleBin ==
    /\ pc = "bins"
    /\ loc.start < Len(arg.times)
    /\ LET b == ProcessBin(arg.times, arg.values, arg.binSize, loc.start)
       IN  loc' = [start |-> loc.start + arg.binSize,
                   downsampledTimes |-> loc.downsampledTimes \o b.times,
                   downsampledValues |-> loc.downsampledValues \o b.values,
                   bin |-> b]
    /\ UNCHANGED <<pc, arg, ret>>

\* The loop is over: the downsampled series is returned.
DownsampleReturn ==
    /\ pc = "bins"
    /\ loc.start >= Len(arg.times)
    /\ ret' = [status |-> "ok", times |-> loc.downsampledTimes,
               values |-> loc.downsampledValues]
    /\ pc' = "returned"
    /\ UNCHANGED <<arg, loc>>

\* Bounds of the inputs dynamicDownsample is run on.
MaxHead == 5
MaxPaddedHead == 3
LongPad == 24
MaxBinSize == 5
Vals == {0, 1, 5}

Heads == UNION {[1..n -> Vals] : n \in 0..MaxHead}

\* The series: a free head, followed by no padding or (after a head of at
\* most MaxPaddedHead samples) by LongPad equal samples, a long flat stretch.
\* Times ascend by 1, with one jump of LongPad before position jumpAt.
SeriesValues(head, padded, padVal) ==
    RatSeq(head \o (IF padded THEN [i \in 1..LongPad |-> padVal] ELSE <<>>))
SeriesTimes(n, jumpAt) ==
    [i \in 1..n |-> R(IF i - 1 >= jumpAt THEN i - 1 + LongPad ELSE i - 1)]

BinSizes == (0..MaxBinSize) \cup {MaxHead + LongPad}

DownsampleInit ==
    /\ pc = "dynamicDownsample"
    /\ \E head \in Heads, padded \in BOOLEAN, padVal \in Vals,
          jumpAt \in 0..MaxHead, binSize \in BinSizes :
          /\ (~padded => padVal = 0)
          /\ (padded => Len(head) <= MaxPaddedHead)
          /\ jumpAt <= Len(head)
          /\ LET values == SeriesValues(head, padded, padVal)
             IN  arg = [times |-> SeriesTimes(Len(values), jumpAt),
                        values |-> values, binSize |-> binSize]
    /\ loc = DownsampleLocals
    /\ ret = None

DownsampleNext == DownsampleEnter \/ DownsampleBin \/ DownsampleReturn

SpecDownsample == DownsampleInit /\ [][DownsampleNext]_vars

\* dynamicDownsample as a function: the points the bins numbered lo..hi-1
\* append, in order (the loop over bins, its appends grouped by halves).
RECURSIVE DownsampleBins(_, _, _, _, _)
DownsampleBins(times, values, binSize, lo, hi) ==
    IF hi <= lo THEN [times |-> <<>>, values |-> <<>>]
    ELSE IF hi = lo + 1
    THEN LET b == ProcessBin(times, values, binSize, lo * binSize)
         IN  [times |-> b.times, values |-> b.values]
    ELSE LET mid == (lo + hi) \div 2
             l == DownsampleBins(times, values, binSize, lo, mid)
             h == DownsampleBins(times, values, binSize, mid, hi)
         IN  [times |-> l.times \o h.times, values |-> l.values \o h.values]

dynamicDownsample(times, values, binSize) ==
    IF DownsampleNoOp(times, binSize)
    THEN [times |-> times, values |-> values]
    ELSE DownsampleBins(times, values, binSize, 0,
                        (Len(times) + binSize - 1) \div binSize)

\* The loop of the steps and the function return the same series.
DownsampleStepsAgree ==
    pc = "returned" =>
        LET d == dynamicDownsample(arg.times, arg.values, arg.binSize)
        IN  ret.times = d.times /\ ret.values = d.values

-----------------------------------------------------------------------------
(* timeseries.go: readBinaryFile, GetTotalFileLength, ReadAndDownsample;   *)
(* main.go: the "plot" request.                                            *)

\* A recording file is its size in bytes, its extension and the float32
\* samples it holds: sample k of a file of shape "flat" is 0, of shape "saw"
\* it is k mod 3.  A file of shape "bytes" is given byte by byte.
Sample(file, k) == IF file.shape = "saw" THEN k % 3 ELSE 0

RECURSIVE Pow2(_)
Pow2(k) == IF k = 0 THEN 1 ELSE 2 * Pow2(k - 1)

\* A variant of Float32frombits that takes the four bytes most significant
\* byte first.
Float32frombitsBigEndian(b) ==
    LET negative == b[1] >= 128
        exponent == (b[1] % 128) * 2 + b[2] \div 128
        mantissa == (b[2] % 128) * 65536 + b[3] * 256 + b[4]
        significand == IF negative THEN -(8388608 + mantissa)
                       ELSE 8388608 + mantissa
    IN  IF exponent = 0 /\ mantissa = 0 THEN R(0)
        ELSE IF exponent = 255
        THEN (IF mantissa # 0 THEN NaN ELSE IF negative THEN NegInf ELSE PosInf)
        ELSE IF exponent >= 150 /\ exponent <= 156
        THEN R(significand * Pow2(exponent - 150))
        ELSE IF exponent >= 120 /\ exponent < 150
        THEN Norm(significand, Pow2(150 - exponent))
        ELSE b

\* math.Float32frombits(binary.LittleEndian.Uint32(b)) as a float64, for the
\* four bytes b, least significant first: sign (1 bit), exponent (8 bits),
\* mantissa (23 bits); a normal number is (2^23 + mantissa) * 2^(exponent-150).
\* A finite value outside 2^-7 .. 2^30 in magnitude is kept as its bytes.
Float32frombits(b) ==
    LET negative == b[4] >= 128
        exponent == (b[4] % 128) * 2 + b[3] \div 128
        mantissa == (b[3] % 128) * 65536 + b[2] * 256 + b[1]
        significand == IF negative THEN -(8388608 + mantissa)
                       ELSE 8388608 + mantissa
    IN  IF exponent = 0 /\ mantissa = 0 THEN R(0)
        ELSE IF exponent = 255
        THEN (IF mantissa # 0 THEN NaN ELSE IF negative THEN NegInf ELSE PosInf)
        ELSE IF exponent >= 150 /\ exponent <= 156
        THEN R(significand * Pow2(exponent - 150))
        ELSE IF exponent >= 120 /\ exponent < 150
        THEN Norm(significand, Pow2(150 - exponent))
        ELSE b

\* The float32 sample held at byte offset off of a file, as a float64.
Float32At(file, off) ==
    IF file.shape = "bytes"
    THEN Float32frombits(SubSeq(file.bytes, off + 1, off + 4))
    ELSE R(Sample(file, off \div 4))

\* What the operating system does to one read of a file: every call
\* succeeds ("ok"), the read returns ShortBytes fewer bytes than asked for
\* ("short"), or one of the calls fails.
IOOutcomes == {"ok", "short", "openErr", "statErr", "seekErr", "readErr"}
ShortBytes == 5

IoError(msg) == [status |-> "error", message |-> msg]

\* The number of bytes file.Read returns for a buffer of asked bytes at
\* position seekPos: never more than the file holds from there on.
ReadCount(file, seekPos, asked, io) ==
    LET available == Min2(asked, file.size - seekPos)
    IN  IF io = "short"
        THEN (IF available > ShortBytes THEN available - ShortBytes ELSE 0)
        ELSE available

readBinaryFile(file, startIndex0, endIndex0, io) ==
    LET totalPoints == file.size \div 4
        startIndex == IF startIndex0 < 0 THEN 0 ELSE startIndex0
        endIndex == IF endIndex0 <= 0 \/ endIndex0 > totalPoints
                    THEN totalPoints ELSE endIndex0
        pointsToRead == endIndex - startIndex
        seekPos == startIndex * 4
        asked == pointsToRead * 4
        n == ReadCount(file, seekPos, asked, io)
        actualPoints == n \div 4
        points == IF actualPoints < pointsToRead THEN actualPoints ELSE pointsToRead
    IN  IF io = "openErr" THEN IoError("open")
        ELSE IF io = "statErr" THEN IoError("stat")
        ELSE IF startIndex >= endIndex THEN IoError("invalid index range")
        ELSE IF seekPos >= file.size THEN IoError("seek position beyond file size")
        ELSE IF io = "seekErr" THEN IoError("seek error")
        ELSE IF io = "readErr" THEN IoError("read")
        ELSE [status |-> "ok",
              times |-> [i \in 1..points |-> R(startIndex + i - 1)],
              values |-> [i \in 1..points |->
                            Float32At(file, seekPos + (i - 1) * 4)]]

RECURSIVE GetTotalFileLength(_, _)
\* The sum of the files' sample counts; ios[i] = "statErr" fails the stat of
\* file i.
GetTotalFileLength(filePaths, ios) ==
    IF filePaths = <<>> THEN [status |-> "ok", totalLength |-> 0]
    ELSE IF Head(ios) = "statErr" THEN IoError("error getting file info")
    ELSE LET rest == GetTotalFileLength(Tail(filePaths), Tail(ios))
         IN  IF rest.status = "error" THEN rest
             ELSE [status |-> "ok",
                   totalLength |-> Head(filePaths).size \div 4 + rest.totalLength]

targetResolution == 2000

\* int(math.Ceil(float64(a) / float64(b))) for b > 0.
CeilDiv(a, b) == -((-a) \div b)

PlotBinSize(startIndex, endIndex) ==
    LET pointsInView == endIndex - startIndex
        binSize == CeilDiv(pointsInView, targetResolution)
    IN  IF binSize < 1 THEN 1 ELSE binSize

RECURSIVE ReadAndDownsampleFrom(_, _, _, _, _)
\* The loop over the files: the first failing read fails the request.
ReadAndDownsampleFrom(filePaths, startIndex, endIndex, ios, binSize) ==
    IF filePaths = <<>> THEN [status |-> "ok", files |-> <<>>]
    ELSE LET r == readBinaryFile(Head(filePaths), startIndex, endIndex, Head(ios))
         IN  IF r.status = "error" THEN r
             ELSE LET d == IF binSize > 1
                           THEN dynamicDownsample(r.times, r.values, binSize)
                           ELSE [times |-> r.times, values |-> r.values]
                      rest == ReadAndDownsampleFrom(Tail(filePaths), startIndex,
                                                    endIndex, Tail(ios), binSize)
                  IN  IF rest.status = "error" THEN rest
                      ELSE [status |-> "ok", files |-> <<d>> \o rest.files]

ReadAndDownsample(filePaths, startIndex, endIndex, ios) ==
    ReadAndDownsampleFrom(filePaths, startIndex, endIndex, ios,
                          PlotBinSize(startIndex, endIndex))

RECURSIVE BinFilesOf(_)
\* The files of the request whose extension is ".bin".
BinFilesOf(files) ==
    IF files = <<>> THEN <<>>
    ELSE (IF Head(files).ext = ".bin" THEN <<Head(files)>> ELSE <<>>)
         \o BinFilesOf(Tail(files))

PlotError(msg) == [type |-> "error", message |-> msg]

\* The reply to a "plot" request; stats and ios are what the operating
\* system does to the stat and to the read of each .bin file.
PlotReply(req, stats, ios) ==
    LET binFiles == BinFilesOf(req.files)
        initial == req.startIndex = 0 /\ req.endIndex = 0
        total == GetTotalFileLength(binFiles, stats)
    IN  IF Len(req.files) = 0 THEN PlotError("No files selected for plotting")
        ELSE IF Len(binFiles) = 0 THEN PlotError("No .bin files selected")
        ELSE IF initial /\ total.status = "error"
        THEN PlotError("Error getting file length")
        ELSE LET endIndex == IF initial THEN total.totalLength ELSE req.endIndex
                 r == ReadAndDownsample(binFiles, req.startIndex, endIndex, ios)
             IN  IF r.status = "error" THEN PlotError("Error reading files")
                 ELSE [type |-> "plotData", files |-> r.files]

\* The handler of a "plot" message, from the request to the message sent.
HandlePlot ==
    /\ pc = "plot"
    /\ \E stats \in [1..Len(BinFilesOf(arg.files)) -> {"ok", "statErr"}],
          ios \in [1..Len(BinFilesOf(arg.files)) -> IOOutcomes] :
          /\ (arg.startIndex # 0 \/ arg.endIndex # 0) =>
                 \A i \in DOMAIN stats : stats[i] = "ok"
          /\ ret' = PlotReply(arg, stats, ios)
    /\ pc' = "replied"
    /\ UNCHANGED <<arg, loc>>

\* The requests the handler is run on.  File sizes are in bytes: no sample,
\* one sample, 3 samples and a stray byte, one sample more than the target
\* resolution, one more than 4 times the target resolution.
SmallFiles ==
    {[size |-> sz, ext |-> ".bin", shape |-> "saw"] : sz \in {0, 4, 13}}
    \cup {[size |-> 13, ext |-> ".bin", shape |-> "flat"],
          [size |-> 13, ext |-> ".csv", shape |-> "saw"]}
LargeFiles ==
    {[size |-> 4 * n, ext |-> ".bin", shape |-> "saw"] :
        n \in {targetResolution + 1, 4 * targetResolution + 1}}
FileLists ==
    {<<>>} \cup {<<f>> : f \in SmallFiles \cup LargeFiles}
           \cup {<<f, g>> : f \in SmallFiles, g \in SmallFiles}
StartIndices == {-1, 0, 1}
EndIndices == {-1, 0, 2, targetResolution + 1, 4 * targetResolution + 1,
               5 * targetResolution}

PlotInit ==
    /\ pc = "plot"
    /\ \E files \in FileLists, startIndex \in StartIndices, endIndex \in EndIndices :
          arg = [files |-> files, startIndex |-> startIndex, endIndex |-> endIndex]
    /\ loc = <<>>
    /\ ret = None

PlotNext == HandlePlot

SpecPlot == PlotInit /\ [][PlotNext]_vars

-----------------------------------------------------------------------------
(* fir.go: resample, calculateMean, findZeroCrossings, stackAndResample.   *)

Panic(msg) == [status |-> "panic", message |-> msg]

RECURSIVE SumSeq(_)
SumSeq(s) == IF s = <<>> THEN R(0) ELSE RAdd(Head(s), SumSeq(Tail(s)))

\* sum / len(data); NaN for an empty slice.
calculateMean(data) == RDiv(SumSeq(data), R(Len(data)))

\* The index resample reads for element i, for ratio =
\* (len(data)-1)/(newLen-1), and whether it lies in data.
ResampleIdx(ratio, i) == RTrunc(RMul(R(i), ratio))
ResampleInRange(data, ratio, i) ==
    ResampleIdx(ratio, i) >= 0 /\ ResampleIdx(ratio, i) < Len(data)

\* Element i of the resampled slice: the linear interpolation between
\* data[idx] and data[idx+1], or data[idx] when there is no right neighbour.
ResampleAt(data, ratio, i) ==
    LET pos == RMul(R(i), ratio)
        idx == ResampleIdx(ratio, i)
        frac == RSub(pos, R(idx))
    IN  IF idx + 1 < Len(data)
        THEN RAdd(RMul(At(data, idx), RSub(R(1), frac)),
                  RMul(At(data, idx + 1), frac))
        ELSE At(data, idx)

\* A variant of resample whose ratio is (len(data)-1)/newLen.
resampleWrongRatio(data, newLen) ==
    LET ratio == RDiv(R(Len(data) - 1), R(newLen))
    IN  IF \E i \in 0..(newLen - 1) : ~ResampleInRange(data, ratio, i)
        THEN Panic("index out of range")
        ELSE [status |-> "ok",
              value |-> [k \in 1..newLen |-> ResampleAt(data, ratio, k - 1)]]

\* resample for newLen >= 2: the resampled slice, or the runtime panic of an
\* index outside data.
resample(data, newLen) ==
    LET ratio == RDiv(R(Len(data) - 1), R(newLen - 1))
    IN  IF \E i \in 0..(newLen - 1) : ~ResampleInRange(data, ratio, i)
        THEN Panic("index out of range")
        ELSE [status |-> "ok",
              value |-> [k \in 1..newLen |-> ResampleAt(data, ratio, k - 1)]]

\* The indices i with (data[i]-mean)*(data[i+1]-mean) < 0, ascending, from
\* index i on.
RECURSIVE findZeroCrossingsFrom(_, _, _)
findZeroCrossingsFrom(data, mean, i) ==
    IF i >= Len(data) - 1 THEN <<>>
    ELSE (IF RLess(RMul(RSub(At(data, i), mean), RSub(At(data, i + 1), mean)), R(0))
          THEN <<i>> ELSE <<>>)
         \o findZeroCrossingsFrom(data, mean, i + 1)

findZeroCrossings(data, mean) == findZeroCrossingsFrom(data, mean, 0)

maxCycles == 5

\* A variant of CollectCycles in which every crossing starts a cycle.
RECURSIVE CollectCyclesEveryCrossing(_, _, _, _, _)
CollectCyclesEveryCrossing(data, zeroCrossings, samplesPerCycle, i, stackedCycles) ==
    IF i < Len(zeroCrossings) - 1 /\ Len(stackedCycles) < maxCycles
    THEN LET start == At(zeroCrossings, i)
             end == start + samplesPerCycle
         IN  IF end > Len(data) THEN stackedCycles
             ELSE CollectCyclesEveryCrossing(data, zeroCrossings, samplesPerCycle,
                      i + 1, Append(stackedCycles, SubSeq(data, start + 1, end)))
    ELSE stackedCycles

\* The loop that collects the cycles to stack: crossing i starts a cycle of
\* samplesPerCycle samples, i advances by 2, the loop breaks at the first
\* cycle that ends beyond the data.
RECURSIVE CollectCycles(_, _, _, _, _)
CollectCycles(data, zeroCrossings, samplesPerCycle, i, stackedCycles) ==
    IF i < Len(zeroCrossings) - 1 /\ Len(stackedCycles) < maxCycles
    THEN LET start == At(zeroCrossings, i)
             end == start + samplesPerCycle
         IN  IF end > Len(data) THEN stackedCycles
             ELSE CollectCycles(data, zeroCrossings, samplesPerCycle, i + 2,
                                Append(stackedCycles, SubSeq(data, start + 1, end)))
    ELSE stackedCycles

\* The sample-wise average of the stacked cycles.
AverageCycles(stackedCycles, samplesPerCycle) ==
    [i \in 1..samplesPerCycle |->
        RDiv(SumSeq([j \in 1..Len(stackedCycles) |-> stackedCycles[j][i]]),
             R(Len(stackedCycles)))]

\* data[:samplesPerCycle] when data is longer than that, else data.
FirstCycle(data, samplesPerCycle) ==
    IF Len(data) > samplesPerCycle THEN SubSeq(data, 1, samplesPerCycle) ELSE data

\* A variant of stackAndResample that stacks as soon as one cycle fits.
stackAndResampleOneCycle(data, sampleRate, waveFrequency, nSamples) ==
    LET samplesPerCycle == sampleRate \div waveFrequency
        mean == calculateMean(data)
        searchLength == Min2(Len(data), samplesPerCycle * 4)
        zeroCrossings == findZeroCrossings(SubSeq(data, 1, searchLength), mean)
        stackedCycles == CollectCycles(data, zeroCrossings, samplesPerCycle, 0, <<>>)
        locals(strategy, zc, cycles, source) ==
            [samplesPerCycle |-> samplesPerCycle, strategy |-> strategy,
             zeroCrossings |-> zc, stackedCycles |-> cycles, source |-> source,
             result |-> resample(source, nSamples)]
    IN  IF Len(data) < samplesPerCycle
        THEN locals("raw", <<>>, <<>>, data)
        ELSE IF Len(zeroCrossings) < 2
        THEN locals("firstCycle", zeroCrossings, <<>>, FirstCycle(data, samplesPerCycle))
        ELSE IF Len(stackedCycles) = 0
        THEN locals("noCycle", zeroCrossings, <<>>, FirstCycle(data, samplesPerCycle))
        ELSE locals("stacked", zeroCrossings, stackedCycles,
                    AverageCycles(stackedCycles, samplesPerCycle))

\* stackAndResample: the locals it ends with (the strategy taken, the
\* crossings found, the cycles stacked, the slice handed to resample) and
\* the result of resample.  samplesPerCycle is int(sampleRate/waveFrequency).
stackAndResample(data, sampleRate, waveFrequency, nSamples) ==
    LET samplesPerCycle == sampleRate \div waveFrequency
        mean == calculateMean(data)
        searchLength == Min2(Len(data), samplesPerCycle * 4)
        zeroCrossings == findZeroCrossings(SubSeq(data, 1, searchLength), mean)
        stackedCycles == CollectCycles(data, zeroCrossings, samplesPerCycle, 0, <<>>)
        locals(strategy, zc, cycles, source) ==
            [samplesPerCycle |-> samplesPerCycle, strategy |-> strategy,
             zeroCrossings |-> zc, stackedCycles |-> cycles, source |-> source,
             result |-> resample(source, nSamples)]
    IN  IF Len(data) < samplesPerCycle * 2
        THEN locals("raw", <<>>, <<>>, data)
        ELSE IF Len(zeroCrossings) < 2
        THEN locals("firstCycle", zeroCrossings, <<>>, FirstCycle(data, samplesPerCycle))
        ELSE IF Len(stackedCycles) = 0
        THEN locals("noCycle", zeroCrossings, <<>>, FirstCycle(data, samplesPerCycle))
        ELSE locals("stacked", zeroCrossings, stackedCycles,
                    AverageCycles(stackedCycles, samplesPerCycle))

\* A call of resample.
CallResample ==
    /\ pc = "resample"
    /\ ret' = resample(arg.data, arg.nSamples)
    /\ loc' = [samplesPerCycle |-> 0, strategy |-> "direct", zeroCrossings |-> <<>>,
               stackedCycles |-> <<>>, source |-> arg.data, result |-> ret']
    /\ pc' = "returned"
    /\ UNCHANGED arg

\* A call of stackAndResample.
CallStack ==
    /\ pc = "stackAndResample"
    /\ loc' = stackAndResample(arg.data, arg.sampleRate, arg.waveFrequency, arg.nSamples)
    /\ ret' = loc'.result
    /\ pc' = "returned"
    /\ UNCHANGED arg

\* Bounds of the inputs resample and stackAndResample are run on.
MaxData == 6
MaxNewLen == 3
MaxSampleRate == 3
MaxWaveFrequency == 2
SampleVals == {0, 1, 3}

\* Longer recordings of 4 samples per cycle: n samples that change sign at
\* every index around a level, and recordings level up to two late samples.
Alternating(n, level) ==
    [i \in 1..n |-> R(level + (IF i % 2 = 1 THEN 1 ELSE -1) * (1 + (i % 3)))]
LateCrossings(n, level) ==
    [i \in 1..n |-> R(level + (IF i = n - 1 THEN -7 ELSE 1))]
LongRecordings ==
    {Alternating(n, level) : n \in {8, 11, 14, 16, 18}, level \in {0, 10}}
    \cup {LateCrossings(n, level) : n \in {8, 9}, level \in {0, 10}}

StackInit ==
    /\ pc \in {"resample", "stackAndResample"}
    /\ \/ \E n \in 0..MaxData, sampleRate \in 1..MaxSampleRate,
             waveFrequency \in 1..MaxWaveFrequency, nSamples \in 2..MaxNewLen :
             \E data \in [1..n -> SampleVals] :
                 /\ (pc = "resample" => sampleRate = 1 /\ waveFrequency = 1)
                 /\ arg = [data |-> RatSeq(data), sampleRate |-> sampleRate,
                           waveFrequency |-> waveFrequency, nSamples |-> nSamples]
       \/ \E data \in LongRecordings, nSamples \in 2..MaxNewLen :
             /\ pc = "stackAndResample"
             /\ arg = [data |-> data, sampleRate |-> 4, waveFrequency |-> 1,
                       nSamples |-> nSamples]
    /\ loc = <<>>
    /\ ret = None

StackNext == CallResample \/ CallStack

SpecStack == StackInit /\ [][StackNext]_vars

-----------------------------------------------------------------------------
(* fir.go: generatePerfectSquareWave.                                      *)

\* The loop over the signal that sums and counts the samples above the mean
\* (high) and the others (low).
RECURSIVE PartitionLevels(_, _, _)
PartitionLevels(signal, mean, acc) ==
    IF signal = <<>> THEN acc
    ELSE LET v == Head(signal)
         IN  PartitionLevels(Tail(signal), mean,
                 IF RGreater(v, mean)
                 THEN [acc EXCEPT !.highValue = RAdd(acc.highValue, v),
                                  !.highCount = acc.highCount + 1]
                 ELSE [acc EXCEPT !.lowValue = RAdd(acc.lowValue, v),
                                  !.lowCount = acc.lowCount + 1])

NoLevels == [highValue |-> R(0), highCount |-> 0, lowValue |-> R(0), lowCount |-> 0]

\* A variant of generatePerfectSquareWave that takes the polarity from the
\* second half of the signal.
generatePerfectSquareWaveSecondHalf(signal) ==
    LET n == Len(signal)
        mean == calculateMean(signal)
        firstHalfMean == calculateMean(SubSeq(signal, n \div 2 + 1, n))
        isFirstHalfHigh == RGreater(firstHalfMean, mean)
        sums == PartitionLevels(signal, mean, NoLevels)
        highValue == RDiv(sums.highValue, R(sums.highCount))
        lowValue == RDiv(sums.lowValue, R(sums.lowCount))
    IN  [mean |-> mean, firstHalfMean |-> firstHalfMean,
         isFirstHalfHigh |-> isFirstHalfHigh,
         highCount |-> sums.highCount, lowCount |-> sums.lowCount,
         highValue |-> highValue, lowValue |-> lowValue,
         result |-> [i \in 1..n |->
                        IF (i - 1 < n \div 2) = isFirstHalfHigh
                        THEN highValue ELSE lowValue]]

\* generatePerfectSquareWave: its locals and the square wave it returns.
generatePerfectSquareWave(signal) ==
    LET n == Len(signal)
        mean == calculateMean(signal)
        firstHalfMean == calculateMean(SubSeq(signal, 1, n \div 2))
        isFirstHalfHigh == RGreater(firstHalfMean, mean)
        sums == PartitionLevels(signal, mean, NoLevels)
        highValue == RDiv(sums.highValue, R(sums.highCount))
        lowValue == RDiv(sums.lowValue, R(sums.lowCount))
    IN  [mean |-> mean, firstHalfMean |-> firstHalfMean,
         isFirstHalfHigh |-> isFirstHalfHigh,
         highCount |-> sums.highCount, lowCount |-> sums.lowCount,
         highValue |-> highValue, lowValue |-> lowValue,
         result |-> [i \in 1..n |->
                        IF (i - 1 < n \div 2) = isFirstHalfHigh
                        THEN highValue ELSE lowValue]]

\* A call of generatePerfectSquareWave.
CallSquareWave ==
    /\ pc = "generatePerfectSquareWave"
    /\ loc' = generatePerfectSquareWave(arg.signal)
    /\ ret' = [status |-> "ok", value |-> loc'.result]
    /\ pc' = "returned"
    /\ UNCHANGED arg

\* Bounds of the signals generatePerfectSquareWave is run on.
MaxSignal == 6

SquareWaveInit ==
    /\ pc = "generatePerfectSquareWave"
    /\ \E n \in 0..MaxSignal : \E signal \in [1..n -> SampleVals] :
          arg = [signal |-> RatSeq(signal)]
    /\ loc = <<>>
    /\ ret = None

SquareWaveNext == CallSquareWave

SpecSquareWave == SquareWaveInit /\ [][SquareWaveNext]_vars

-----------------------------------------------------------------------------
(* fir.go: roll, dotProduct, the matrix operations, applyFIRFilter.        *)

\* make([]T, n) filled element by element: the slice <<f[1], ..., f[n]>>.
RECURSIVE Slice(_, _)
Slice(f, n) == IF n = 0 THEN <<>> ELSE Append(Slice(f, n - 1), f[n])

\* A variant of roll that shifts to the right.
rollRight(data, shift) ==
    Slice([i \in 1..Len(data) |->
              At(data, ((i - 1) + Len(data) - shift) % Len(data))], Len(data))

\* roll: result[i] = data[(i+shift) % n].
roll(data, shift) ==
    Slice([i \in 1..Len(data) |-> At(data, ((i - 1) + shift) % Len(data))],
          Len(data))

\* sum := 0.0; sum += terms[0]; sum += terms[1]; ...
RECURSIVE Accumulate(_, _)
Accumulate(terms, k) ==
    IF k = 0 THEN R(0) ELSE RAdd(Accumulate(terms, k - 1), terms[k])

\* dotProduct ranges over the indices of a.
dotProduct(a, b) ==
    Accumulate([i \in 1..Len(a) |-> RMul(a[i], b[i])], Len(a))

\* transposeMatrix of a matrix with at least one row.
transposeMatrix(m) ==
    Slice([j \in 1..Len(m[1]) |-> Slice([i \in 1..Len(m) |-> m[i][j]], Len(m))],
          Len(m[1]))

matrixMultiply(a, b) ==
    Slice([i \in 1..Len(a) |->
             Slice([j \in 1..Len(b[1]) |->
                      Accumulate([k \in 1..Len(b) |-> RMul(a[i][k], b[k][j])],
                                 Len(b))], Len(b[1]))], Len(a))

matrixVectorMultiply(m, v) ==
    Slice([i \in 1..Len(m) |->
             Accumulate([j \in 1..Len(m[i]) |-> RMul(m[i][j], v[j])], Len(m[i]))],
          Len(m))

\* applyFIRFilter: filtered[i] = dotProduct(coeffs, roll(signal, i)).
applyFIRFilter(signal, coeffs) ==
    Slice([i \in 1..Len(signal) |-> dotProduct(coeffs, roll(signal, i - 1))],
          Len(signal))

\* The matrix regularizedLeastSquares builds from the measured waveform:
\* row i is the waveform rolled by i.
DesignMatrix(imperfect) ==
    Slice([i \in 1..Len(imperfect) |-> roll(imperfect, i - 1)], Len(imperfect))

\* A call of applyFIRFilter on a signal and coefficients of one length, as
\* ProcessFIR calls it.
CallFilter ==
    /\ pc = "applyFIRFilter"
    /\ loc' = [rolled |-> DesignMatrix(arg.signal)]
    /\ ret' = [status |-> "ok", value |-> applyFIRFilter(arg.signal, arg.coeffs)]
    /\ pc' = "returned"
    /\ UNCHANGED arg

\* Bounds of the signals and coefficients applyFIRFilter is run on.
MaxTaps == 3
TapVals == {-1, 0, 1, 2}

FilterInit ==
    /\ pc = "applyFIRFilter"
    /\ \E n \in 0..MaxTaps :
          \E signal \in [1..n -> TapVals] : \E coeffs \in [1..n -> TapVals] :
             arg = [signal |-> RatSeq(signal), coeffs |-> RatSeq(coeffs)]
    /\ loc = <<>>
    /\ ret = None

FilterNext == CallFilter

SpecFilter == FilterInit /\ [][FilterNext]_vars

-----------------------------------------------------------------------------
(* fir.go: regularizedLeastSquares, solveLinearSystem.                     *)

\* One pass of the forward elimination: row i is divided by its pivot
\* A[i][i] from column i on, and factor * row i is subtracted from every
\* row below it.  The pivot is not tested: a zero pivot divides by zero.
EliminateRow(A, b, i) ==
    LET n == Len(A)
        pivot == A[i][i]
        rowI == Slice([j \in 1..n |->
                          IF j >= i THEN RDiv(A[i][j], pivot) ELSE A[i][j]], n)
        bI == RDiv(b[i], pivot)
    IN  [A |-> Slice([k \in 1..n |->
                  IF k = i THEN rowI
                  ELSE IF k > i
                  THEN Slice([j \in 1..n |->
                          IF j >= i THEN RSub(A[k][j], RMul(A[k][i], rowI[j]))
                          ELSE A[k][j]], n)
                  ELSE A[k]], n),
         b |-> Slice([k \in 1..n |->
                  IF k = i THEN bI
                  ELSE IF k > i THEN RSub(b[k], RMul(A[k][i], bI))
                  ELSE b[k]], n),
         pivot |-> pivot]

\* The forward elimination of rows 1..i, with the pivots it divided by.
RECURSIVE Eliminate(_, _, _)
Eliminate(A, b, i) ==
    IF i = 0 THEN [A |-> A, b |-> b, pivots |-> <<>>]
    ELSE LET prev == Eliminate(A, b, i - 1)
             step == EliminateRow(prev.A, prev.b, i)
         IN  [A |-> step.A, b |-> step.b,
              pivots |-> Append(prev.pivots, step.pivot)]

\* x[i] = b[i]; x[i] -= A[i][j] * x[j] for j = i+1 .. k.
RECURSIVE BackRow(_, _, _, _, _)
BackRow(A, b, x, i, k) ==
    IF k = i THEN b[i]
    ELSE RSub(BackRow(A, b, x, i, k - 1), RMul(A[i][k], x[k]))

\* The back substitution of rows n down to i.
RECURSIVE BackSubstitute(_, _, _)
BackSubstitute(A, b, i) ==
    IF i > Len(A) THEN Slice([j \in 1..Len(A) |-> R(0)], Len(A))
    ELSE LET x == BackSubstitute(A, b, i + 1)
         IN  [x EXCEPT ![i] = BackRow(A, b, x, i, Len(A))]

\* A variant of solveLinearSystem that returns the right-hand side left by
\* the elimination, without the back substitution.
solveLinearSystemForwardOnly(A, b) ==
    LET e == Eliminate(A, b, Len(A))
    IN  [pivots |-> e.pivots, A |-> e.A, b |-> e.b, x |-> e.b]

\* solveLinearSystem: Gaussian elimination without row exchange; it returns
\* x whatever the pivots were.
solveLinearSystem(A, b) ==
    LET e == Eliminate(A, b, Len(A))
    IN  [pivots |-> e.pivots, A |-> e.A, b |-> e.b,
         x |-> BackSubstitute(e.A, e.b, 1)]

\* A variant of Regularize that subtracts the ridge term.
RegularizeSubtract(ATA, diagMean, regParam) ==
    Slice([i \in 1..Len(ATA) |-> Slice([j \in 1..Len(ATA) |->
        IF i = j THEN RSub(ATA[i][i], RMul(diagMean, regParam)) ELSE ATA[i][j]],
        Len(ATA))], Len(ATA))

\* ATA[i][i] += diagMean * regParam.
Regularize(ATA, diagMean, regParam) ==
    Slice([i \in 1..Len(ATA) |-> Slice([j \in 1..Len(ATA) |->
        IF i = j THEN RAdd(ATA[i][i], RMul(diagMean, regParam)) ELSE ATA[i][j]],
        Len(ATA))], Len(ATA))

\* regularizedLeastSquares: its locals and the coefficients x it returns.
\* For an empty waveform transposeMatrix reads m[0] of an empty matrix.
regularizedLeastSquares(imperfect, perfect, regParam) ==
    LET n == Len(imperfect)
        A == DesignMatrix(imperfect)
        ATA == matrixMultiply(transposeMatrix(A), A)
        ATb == matrixVectorMultiply(transposeMatrix(A), perfect)
        diagMean == RDiv(Accumulate([i \in 1..n |-> ATA[i][i]], n), R(n))
        system == Regularize(ATA, diagMean, regParam)
        solved == solveLinearSystem(system, ATb)
    IN  IF n = 0 THEN Panic("index out of range")
        ELSE [status |-> "ok", ATA |-> system, ATb |-> ATb,
              diagMean |-> diagMean, pivots |-> solved.pivots, x |-> solved.x]

\* ProcessFIR's call of regularizedLeastSquares on the stacked waveform and
\* its reference.
CallRegularizedLeastSquares ==
    /\ pc = "regularizedLeastSquares"
    /\ LET r == regularizedLeastSquares(arg.imperfect, arg.perfect, arg.regParam)
       IN  IF r.status = "panic"
           THEN /\ ret' = r
                /\ pc' = "returned"
                /\ UNCHANGED loc
           ELSE /\ loc' = r
                /\ pc' = "applyFIRFilter"
                /\ UNCHANGED ret
    /\ UNCHANGED arg

\* ProcessFIR's call of applyFIRFilter with the coefficients just solved.
CallApplyFIRFilter ==
    /\ pc = "applyFIRFilter"
    /\ ret' = [status |-> "ok", coefficients |-> loc.x,
               filtered |-> applyFIRFilter(arg.imperfect, loc.x)]
    /\ pc' = "returned"
    /\ UNCHANGED <<arg, loc>>

\* The waveforms and regularization values the solver is run on.
MeasuredVals == {-1, 0, 1}
LevelVals == {-1, 1}
Regularizations == {R(0), <<1, 10>>, R(1)}

SolveInit ==
    /\ pc = "regularizedLeastSquares"
    /\ \E n \in 0..MaxTaps :
          \E imperfect \in [1..n -> MeasuredVals] : \E perfect \in [1..n -> LevelVals] :
             \E regParam \in Regularizations :
                arg = [imperfect |-> RatSeq(imperfect), perfect |-> RatSeq(perfect),
                       regParam |-> regParam]
    /\ loc = <<>>
    /\ ret = None

SolveNext == CallRegularizedLeastSquares \/ CallApplyFIRFilter

SpecSolve == SolveInit /\ [][SolveNext]_vars

-----------------------------------------------------------------------------
(* fir.go: readPartialBinaryFile; timeseries.go: ReadBinaryFile; the reads *)
(* of one file by the three read paths.                                    *)

\* The bytes of the float32 samples 0, 1 and 2, least significant first.
PatternBytes(v) ==
    IF v = 1 THEN <<0, 0, 128, 63>>
    ELSE IF v = 2 THEN <<0, 0, 0, 64>>
    ELSE <<0, 0, 0, 0>>

\* The byte at offset off of a file.
FileByte(file, off) ==
    IF file.shape = "bytes" THEN file.bytes[off + 1]
    ELSE PatternBytes(Sample(file, off \div 4))[(off % 4) + 1]

\* readPartialBinaryFile: the first numSamples samples of the file, or as
\* many complete 4-byte samples as the read returned.
readPartialBinaryFile(file, numSamples, io) ==
    LET bytesToRead == numSamples * 4
        n == ReadCount(file, 0, bytesToRead, io)
        samples == n \div 4
    IN  IF io = "openErr" THEN IoError("open")
        ELSE IF io = "readErr" THEN IoError("read")
        ELSE [status |-> "ok",
              values |-> [i \in 1..samples |-> Float32At(file, (i - 1) * 4)]]

\* math.Float64frombits(order.Uint64(b)) for the eight bytes b, least
\* significant first: sign (1 bit), exponent (11 bits), mantissa (52 bits); a
\* normal number is (2^52 + mantissa) * 2^(exponent-1075).  A finite value
\* whose low 32 mantissa bits are not zero, or outside 2^-10 .. 2^30 in
\* magnitude, is kept as its bytes.
Float64frombits(b) ==
    LET negative == b[8] >= 128
        exponent == (b[8] % 128) * 16 + b[7] \div 16
        mantissaHigh == (b[7] % 16) * 65536 + b[6] * 256 + b[5]
        lowZero == \A i \in 1..4 : b[i] = 0
        significand == IF negative THEN -(1048576 + mantissaHigh)
                       ELSE 1048576 + mantissaHigh
    IN  IF exponent = 0 /\ mantissaHigh = 0 /\ lowZero THEN R(0)
        ELSE IF exponent = 2047
        THEN (IF mantissaHigh # 0 \/ ~lowZero THEN NaN
              ELSE IF negative THEN NegInf ELSE PosInf)
        ELSE IF lowZero /\ exponent >= 1043 /\ exponent <= 1053
        THEN R(significand * Pow2(exponent - 1043))
        ELSE IF lowZero /\ exponent >= 1013 /\ exponent < 1043
        THEN Norm(significand, Pow2(1043 - exponent))
        ELSE b

\* ReadBinaryFile: binary.Read fills a []float64 of size/8 elements from
\* 8 * (size/8) bytes; a read that returns fewer bytes is an error.
ReadBinaryFile(file, io) ==
    LET count == file.size \div 8
    IN  IF io = "openErr" THEN IoError("error opening file")
        ELSE IF io = "statErr" THEN IoError("error getting file info")
        ELSE IF count > 0 /\ io \in {"readErr", "short"}
        THEN IoError("error reading file")
        ELSE [status |-> "ok",
              values |-> [i \in 1..count |->
                            Float64frombits([j \in 1..8 |->
                                FileByte(file, (i - 1) * 8 + j - 1)])]]

\* The "plot" path: a windowed read.
CallReadBinaryFile ==
    /\ pc = "readBinaryFile"
    /\ ret' = readBinaryFile(arg.file, arg.startIndex, arg.endIndex, arg.io)
    /\ pc' = "returned"
    /\ UNCHANGED <<arg, loc>>

\* The FIR path: a partial read.
CallReadPartialBinaryFile ==
    /\ pc = "readPartialBinaryFile"
    /\ ret' = readPartialBinaryFile(arg.file, arg.numSamples, arg.io)
    /\ pc' = "returned"
    /\ UNCHANGED <<arg, loc>>

\* The FFT path: a full read.
CallReadFull ==
    /\ pc = "ReadBinaryFile"
    /\ ret' = ReadBinaryFile(arg.file, arg.io)
    /\ pc' = "returned"
    /\ UNCHANGED <<arg, loc>>

\* The files that are read: up to MaxFileSamples samples, each one of the
\* float32 values of SampleCodes given with its IEEE-754 bytes, followed by
\* 0 to 3 bytes (of value 64) of an incomplete sample; and a 400-byte file of
\* 100 samples.
MaxFileSamples == 3
SampleCodes ==
    { [bytes |-> <<0, 0, 0, 0>>, value |-> R(0)],
      [bytes |-> <<0, 0, 32, 192>>, value |-> <<-5, 2>>],
      [bytes |-> <<1, 2, 131, 62>>, value |-> <<8585729, 33554432>>] }

RECURSIVE Flatten(_)
Flatten(chunks) ==
    IF chunks = <<>> THEN <<>> ELSE Head(chunks) \o Flatten(Tail(chunks))

ByteFiles ==
    { [size |-> 4 * Len(codes) + tail, ext |-> ".bin", shape |-> "bytes",
       bytes |-> Flatten([i \in 1..Len(codes) |-> codes[i].bytes])
                 \o [i \in 1..tail |-> 64]] :
        codes \in UNION {[1..n -> SampleCodes] : n \in 0..MaxFileSamples},
        tail \in 0..3 }
ExampleFile == [size |-> 400, ext |-> ".bin", shape |-> "saw"]
ReadFiles == ByteFiles \cup {ExampleFile}

ReadStartIndices == {-1, 0, 1, 2}
ReadEndIndices == {-1, 0, 1, 2, 3, 200}
PartialCounts == {0, 1, 2, 4}

ReadInit ==
    /\ \E file \in ReadFiles :
          \/ /\ pc = "readBinaryFile"
             /\ \E startIndex \in ReadStartIndices, endIndex \in ReadEndIndices,
                   io \in IOOutcomes :
                   arg = [file |-> file, startIndex |-> startIndex,
                          endIndex |-> endIndex, io |-> io]
          \/ /\ pc = "readPartialBinaryFile"
             /\ \E numSamples \in PartialCounts,
                   io \in {"ok", "short", "openErr", "readErr"} :
                   arg = [file |-> file, numSamples |-> numSamples, io |-> io]
          \/ /\ pc = "ReadBinaryFile"
             /\ \E io \in {"ok", "short", "openErr", "statErr", "readErr"} :
                   arg = [file |-> file, io |-> io]
    /\ loc = <<>>
    /\ ret = None

ReadNext == CallReadBinaryFile \/ CallReadPartialBinaryFile \/ CallReadFull

SpecRead == ReadInit /\ [][ReadNext]_vars

-----------------------------------------------------------------------------
(* fft.go: ComputeFFT.                                                     *)

MinMagnitude == -120
fftSize == 65536

\* The loop that keeps the largest math.Abs(v) of the first k samples.
RECURSIVE MaxAbs(_, _)
MaxAbs(data, k) ==
    IF k = 0 THEN R(0)
    ELSE LET maxAbs == MaxAbs(data, k - 1)
             abs == RAbs(data[k])
         IN  IF RGreater(abs, maxAbs) THEN abs ELSE maxAbs

\* fourier.FFT.Freq of a transform of fftSize points: the relative frequency
\* of coefficient i, in cycles per sample, step * i for step = 1/fftSize.
Freq(i) == RMul(RDiv(R(1), R(fftSize)), R(i))

\* frequencies[i] = fft.Freq(i) * (sampleRate / 2).
FrequencyOfBin(i, sampleRate) == RMul(Freq(i), RDiv(sampleRate, R(2)))

\* ComputeFFT: its locals and its result.  The two axes of fftSize/2 + 1
\* elements are given by their length and by what their elements are
\* computed from: frequencies[i] is FrequencyOfBin(i, sampleRate); the
\* transform is not evaluated, magnitudes[i] being MinMagnitude where the
\* coefficient of the windowed input is 0, which is every bin for an input
\* that is all zero, and 20*log10(|coefficient| * correction * scale)
\* elsewhere.
\* The body is written for a transform of size points, fftSize in the code.
ComputeFFTOfSize(data, sampleRate, size) ==
    LET n == Len(data)
        mean == RDiv(Accumulate(data, n), R(n))
        scale == MaxAbs(data, n)
        used == Min2(size, n)
        input == [i \in 1..used |-> RSub(data[i], mean)]
        numFreqs == size \div 2 + 1
    IN  IF n = 0 THEN IoError("empty input data")
        ELSE [status |-> "ok",
              mean |-> mean,
              scale |-> scale,
              frequencies |-> [length |-> numFreqs, sampleRate |-> sampleRate],
              magnitudes |-> IF \A i \in 1..used : input[i] = R(0)
                             THEN [length |-> numFreqs, level |-> MinMagnitude]
                             ELSE [length |-> numFreqs, input |-> input,
                                   scale |-> scale],
              sampleRate |-> sampleRate]

ComputeFFT(data, sampleRate) == ComputeFFTOfSize(data, sampleRate, fftSize)

CallComputeFFT ==
    /\ pc = "ComputeFFT"
    /\ ret' = ComputeFFT(arg.data, arg.sampleRate)
    /\ pc' = "returned"
    /\ UNCHANGED <<arg, loc>>

\* ComputeFFT built with a transform of TransformSize points, small enough
\* for the recordings below to be longer than the transform.
TransformSize == 2

CallShortComputeFFT ==
    /\ pc = "ComputeFFT.short"
    /\ ret' = ComputeFFTOfSize(arg.data, arg.sampleRate, TransformSize)
    /\ pc' = "returned.short"
    /\ UNCHANGED <<arg, loc>>

\* The recordings and sample rates ComputeFFT is run on; the FFT request
\* passes 51200.
MaxSpectrumData == 3
SpectrumVals == {-1, 0, 1, 3}
SampleRates == {R(1000), R(51200)}

SpectrumInit ==
    /\ pc \in {"ComputeFFT", "ComputeFFT.short"}
    /\ \E n \in 0..MaxSpectrumData : \E data \in [1..n -> SpectrumVals] :
          \E sampleRate \in SampleRates :
             arg = [data |-> RatSeq(data), sampleRate |-> sampleRate]
    /\ loc = <<>>
    /\ ret = None

SpectrumNext == CallComputeFFT \/ CallShortComputeFFT

SpecSpectrum == SpectrumInit /\ [][SpectrumNext]_vars

-----------------------------------------------------------------------------
(* fir.go: ProcessFIR; main.go: safeWriteJSON, the "calculateFIR" and      *)
(* "generateFIR" requests.                                                 *)

\* The number of messages the connection holds between the server's write
\* and the client's read; a write to a full connection waits for the client.
SendBuffer == 3

\* nSamples of ProcessFIR, the length the stacked waveform is resampled to
\* (2048 in the code), scaled down to what the solver can be run on.
FirSamples == 2

\* The stabilization of a "calculateFIR" item, 0.01.
DefaultStabilization == <<1, 100>>

\* conn.WriteJSON(v) under the write mutex, once the write can proceed: on a
\* broken connection it returns an error and nothing is sent, otherwise v is
\* on the wire.
safeWriteJSON(conn, v) ==
    IF conn.state = "broken" THEN conn
    ELSE [conn EXCEPT !.wire = Append(@, v)]

\* Whether a write returns: it does not while the connection is full.
WriteReturns(conn) == conn.state = "broken" \/ Len(conn.wire) < SendBuffer

FirProgress(item, progress) ==
    [type |-> "firProgress", item |-> item, progress |-> progress]
FirError(item) == [type |-> "error", item |-> item, progress |-> -1]
FirDone(type, item) ==
    [type |-> IF type = "calculateFIR" THEN "firComplete" ELSE "firResults",
     item |-> item, progress |-> -1]

\* The locals of the handler before the first item.
FirLocals(fs) ==
    [item |-> 0, data |-> <<>>, stackedCoil |-> <<>>, perfectSquare |-> <<>>,
     firCoefficients |-> <<>>, filteredSignal |-> <<>>,
     progress |-> <<>>, pending |-> None, after |-> "",
     calls |-> <<>>, conn |-> [state |-> "up", wire |-> <<>>], fs |-> fs]

Item == arg.items[loc.item]

\* safeWriteJSON is called with message v; the handler goes on at after.
Send(l, v, after) ==
    [l EXCEPT !.pending = v, !.after = after, !.calls = Append(@, v)]

\* progressCallback(progress) is called.
Progress(l, progress, after) ==
    [Send(l, FirProgress(l.item, progress), after)
        EXCEPT !.progress = Append(@, progress)]

\* Where the handler goes on after the terminal message of an item: the next
\* item of the "calculateFIR" loop, or the end of the handler.
AfterItem == IF arg.type = "calculateFIR" THEN "handler" ELSE "done"

\* The handler's loop over the items of the request.
FirNextItem ==
    /\ pc = "handler"
    /\ IF loc.item < Len(arg.items)
       THEN /\ loc' = [loc EXCEPT !.item = @ + 1, !.data = <<>>,
                                  !.stackedCoil = <<>>, !.perfectSquare = <<>>,
                                  !.firCoefficients = <<>>,
                                  !.filteredSignal = <<>>,
                                  !.progress = <<>>]
            /\ ret' = None
            /\ pc' = "ProcessFIR"
       ELSE /\ pc' = "done"
            /\ UNCHANGED <<loc, ret>>
    /\ UNCHANGED arg

\* A variant of FirRead that reports progress 20 before it looks at the
\* error of the read.
FirReadReportsFirst ==
    /\ pc = "ProcessFIR"
    /\ \E io \in {"ok", "short", "openErr", "readErr"} :
          LET samplesPerCycle == Item.sampleRate \div Item.baseFrequency
              samplesToRead == samplesPerCycle * 10
              r == readPartialBinaryFile(Item.file, samplesToRead, io)
          IN  IF r.status = "error"
              THEN /\ loc' = Progress(loc, 20, "failed")
                   /\ ret' = r
              ELSE /\ loc' = Progress([loc EXCEPT !.data =
                                          Slice(r.values, Len(r.values))],
                                      20, "stack")
                   /\ UNCHANGED ret
    /\ pc' = "write"
    /\ UNCHANGED arg

\* ProcessFIR, lines 32-39: the partial read of 10 cycles; its error is
\* returned to the handler, which sends the error message.
FirRead ==
    /\ pc = "ProcessFIR"
    /\ \E io \in {"ok", "short", "openErr", "readErr"} :
          LET samplesPerCycle == Item.sampleRate \div Item.baseFrequency
              samplesToRead == samplesPerCycle * 10
              r == readPartialBinaryFile(Item.file, samplesToRead, io)
          IN  IF r.status = "error"
              THEN /\ loc' = Send(loc, FirError(loc.item), AfterItem)
                   /\ ret' = r
              ELSE /\ loc' = Progress([loc EXCEPT !.data =
                                          Slice(r.values, Len(r.values))],
                                      20, "stack")
                   /\ UNCHANGED ret
    /\ pc' = "write"
    /\ UNCHANGED arg

\* safeWriteJSON returns: the pending message is written, or the write
\* failed; the handler ignores which.
FirWrite ==
    /\ pc = "write"
    /\ WriteReturns(loc.conn)
    /\ loc' = [loc EXCEPT !.conn = safeWriteJSON(loc.conn, loc.pending),
                          !.pending = None, !.after = ""]
    /\ pc' = loc.after
    /\ UNCHANGED <<arg, ret>>

\* The client reads one message from the connection.
ClientReceive ==
    /\ loc.conn.state = "up"
    /\ loc.conn.wire # <<>>
    /\ loc' = [loc EXCEPT !.conn.wire = Tail(@)]
    /\ UNCHANGED <<pc, arg, ret>>

\* The connection breaks: what is on the wire is lost, later writes fail.
ConnectionBreaks ==
    /\ loc.conn.state = "up"
    /\ pc \notin {"done", "panicked"}
    /\ loc' = [loc EXCEPT !.conn = [state |-> "broken", wire |-> <<>>]]
    /\ UNCHANGED <<pc, arg, ret>>

\* ProcessFIR, lines 42-44: stackAndResample; the panic of an index outside
\* the data unwinds the handler.
FirStack ==
    /\ pc = "stack"
    /\ LET r == stackAndResample(loc.data, Item.sampleRate, Item.baseFrequency,
                                 FirSamples).result
       IN  IF r.status = "panic"
           THEN /\ pc' = "panicked"
                /\ ret' = r
                /\ UNCHANGED loc
           ELSE /\ loc' = Progress([loc EXCEPT !.stackedCoil =
                                       Slice(r.value, Len(r.value))],
                                   40, "reference")
                /\ pc' = "write"
                /\ UNCHANGED ret
    /\ UNCHANGED arg

\* ProcessFIR, lines 46-47: the reference synthesis.
FirReference ==
    /\ pc = "reference"
    /\ LET r == generatePerfectSquareWave(loc.stackedCoil).result
       IN  loc' = Progress([loc EXCEPT !.perfectSquare = Slice(r, Len(r))],
                           60, "solve")
    /\ pc' = "write"
    /\ UNCHANGED <<arg, ret>>

\* ProcessFIR, lines 50-51: the solve.
FirSolve ==
    /\ pc = "solve"
    /\ LET r == regularizedLeastSquares(loc.stackedCoil, loc.perfectSquare,
                                        Item.stabilization)
       IN  IF r.status = "panic"
           THEN /\ pc' = "panicked"
                /\ ret' = r
                /\ UNCHANGED loc
           ELSE /\ loc' = Progress([loc EXCEPT !.firCoefficients = r.x],
                                   80, "filter")
                /\ pc' = "write"
                /\ UNCHANGED ret
    /\ UNCHANGED arg

\* ProcessFIR, lines 53-54: the filter.
FirFilter ==
    /\ pc = "filter"
    /\ loc' = Progress([loc EXCEPT !.filteredSignal =
                           applyFIRFilter(loc.stackedCoil, loc.firCoefficients)],
                       100, "mkdir")
    /\ pc' = "write"
    /\ UNCHANGED <<arg, ret>>

\* filepath.Join(filepath.Dir(config.FilePath), "fir_results").
ResultsDir(item) == <<item.dir, "fir_results">>

\* ProcessFIR, lines 56-67: os.MkdirAll of the results directory creates it
\* when it is missing, or fails; then ProcessFIR returns and the handler
\* sends the terminal message of the item.
FirMkdir ==
    /\ pc = "mkdir"
    /\ \E outcome \in {"ok", "mkdirErr"} :
          IF outcome = "ok"
          THEN /\ loc' = Send([loc EXCEPT !.fs = @ \cup {ResultsDir(Item)}],
                              FirDone(arg.type, loc.item), AfterItem)
               /\ ret' = [status |-> "ok", item |-> loc.item]
          ELSE /\ loc' = Send(loc, FirError(loc.item), AfterItem)
               /\ ret' = IoError("error creating results directory")
    /\ pc' = "write"
    /\ UNCHANGED arg

\* The recordings a FIR request names: an empty file, two samples, and four
\* cycles of three samples.
FirFiles == {[size |-> sz, ext |-> ".bin", shape |-> "saw"] : sz \in {0, 8, 48}}

FirItems(stabilizations) ==
    {[file |-> f, dir |-> "site", sampleRate |-> 3, baseFrequency |-> 1,
      stabilization |-> s] : f \in FirFiles, s \in stabilizations}

\* The length of the longest "calculateFIR" batch.
MaxItems == 2

FirInit ==
    /\ pc = "handler"
    /\ \/ /\ \E n \in 0..MaxItems :
                \E items \in [1..n -> FirItems({DefaultStabilization})] :
                   arg = [type |-> "calculateFIR", items |-> items]
       \/ /\ \E item \in FirItems({R(0), DefaultStabilization}) :
                arg = [type |-> "generateFIR", items |-> <<item>>]
    /\ \E fs \in {{}, {<<"site", "fir_results">>}} : loc = FirLocals(fs)
    /\ ret = None

\* The steps of the server, and those of the client and the network.
FirServerNext ==
    \/ FirNextItem \/ FirRead \/ FirWrite \/ FirStack \/ FirReference
    \/ FirSolve \/ FirFilter \/ FirMkdir

FirNext == FirServerNext \/ ClientReceive \/ ConnectionBreaks

SpecFir == FirInit /\ [][FirNext]_vars

\* The lines the server can be at.
FirLines == {"handler", "ProcessFIR", "write", "stack", "reference", "solve",
             "filter", "mkdir", "done", "panicked"}

\* The server can run: its handler has not ended and it is not inside a
\* write that waits for the client.
ServerRuns ==
    /\ pc \notin {"done", "panicked"}
    /\ (pc = "write" => WriteReturns(loc.conn))

\* A step of the server: every one of FirServerNext moves it to another line,
\* and no step of the client or the network does.
ServerStep == ServerRuns /\ pc' \in FirLines /\ pc' # pc

\* The server's goroutine keeps running: when it can run, it takes a step.
FairSpecFir == SpecFir /\ WF_pc(ServerStep)

-----------------------------------------------------------------------------
(* timeseries.go, fir.go: the file handle of the reads (os.Open, the       *)
(* deferred file.Close).                                                   *)

FileCall(op) == [op |-> op, flag |-> "none"]
OpenCall(flag, ok) == [op |-> IF ok THEN "open" ELSE "openFailed", flag |-> flag]

\* The calls readBinaryFile makes on its file up to its return statement:
\* os.Open (read-only), Stat, Seek, Read.
readBinaryFileBody(file, startIndex, endIndex, io) ==
    LET r == readBinaryFile(file, startIndex, endIndex, io)
    IN  IF io = "statErr" THEN <<FileCall("stat")>>
        ELSE IF r.status = "error" /\ r.message \in
                    {"invalid index range", "seek position beyond file size"}
        THEN <<FileCall("stat")>>
        ELSE IF io = "seekErr" THEN <<FileCall("stat"), FileCall("seek")>>
        ELSE <<FileCall("stat"), FileCall("seek"), FileCall("read")>>

\* A variant of readBinaryFileCalls whose file.Close() is the last statement
\* before the successful return instead of a deferred call.
readBinaryFileCallsCloseAtEnd(file, startIndex, endIndex, io) ==
    IF io = "openErr" THEN <<OpenCall("O_RDONLY", FALSE)>>
    ELSE <<OpenCall("O_RDONLY", TRUE)>>
         \o readBinaryFileBody(file, startIndex, endIndex, io)
         \o (IF readBinaryFile(file, startIndex, endIndex, io).status = "ok"
             THEN <<FileCall("close")>> ELSE <<>>)

\* The calls of readBinaryFile on its file: a failed open returns at once;
\* after a successful one the deferred Close runs on every return.
readBinaryFileCalls(file, startIndex, endIndex, io) ==
    IF io = "openErr" THEN <<OpenCall("O_RDONLY", FALSE)>>
    ELSE <<OpenCall("O_RDONLY", TRUE)>>
         \o readBinaryFileBody(file, startIndex, endIndex, io)
         \o <<FileCall("close")>>

\* The calls of readPartialBinaryFile on its file: os.Open, one Read, the
\* deferred Close.
readPartialBinaryFileCalls(file, numSamples, io) ==
    IF io = "openErr" THEN <<OpenCall("O_RDONLY", FALSE)>>
    ELSE <<OpenCall("O_RDONLY", TRUE), FileCall("read"), FileCall("close")>>

\* The calls of ReadBinaryFile on its file: os.OpenFile(path, os.O_RDONLY,
\* 0644), Stat, the reads of binary.Read, the deferred Close.
ReadBinaryFileCalls(file, io) ==
    IF io = "openErr" THEN <<OpenCall("O_RDONLY", FALSE)>>
    ELSE <<OpenCall("O_RDONLY", TRUE), FileCall("stat")>>
         \o (IF io = "statErr" THEN <<>> ELSE <<FileCall("read")>>)
         \o <<FileCall("close")>>

\* The open handles of the process after the calls of one read: an open
\* takes the next free descriptor, Close releases the descriptor of the
\* read's own file.
RECURSIVE AfterCalls(_, _, _)
AfterCalls(handles, calls, fd) ==
    IF calls = <<>> THEN handles
    ELSE LET c == Head(calls)
         IN  IF c.op = "open"
             THEN LET new == 1 + Cardinality(handles)
                  IN  AfterCalls(handles \cup {[fd |-> new, flag |-> c.flag]},
                                 Tail(calls), new)
             ELSE IF c.op = "close"
             THEN AfterCalls({h \in handles : h.fd # fd}, Tail(calls), fd)
             ELSE AfterCalls(handles, Tail(calls), fd)

\* The number of requests served one after the other.
MaxRequests == 3

\* One request has been served by the read whose calls are given.
Serve(request, status, calls) ==
    /\ pc = "serving"
    /\ loc.requests < MaxRequests
    /\ arg' = request
    /\ ret' = [status |-> status]
    /\ loc' = [requests |-> loc.requests + 1, calls |-> calls,
               handles |-> AfterCalls(loc.handles, calls, 0)]
    /\ UNCHANGED pc

\* A "plot" request reads a window of a file.
ServeWindowRead ==
    \E file \in FirFiles, first \in ReadStartIndices,
       last \in ReadEndIndices, io \in IOOutcomes :
        Serve([read |-> "readBinaryFile", file |-> file, io |-> io,
               window |-> <<first, last>>],
              readBinaryFile(file, first, last, io).status,
              readBinaryFileCalls(file, first, last, io))

\* A FIR request reads the head of a file.
ServePartialRead ==
    \E file \in FirFiles, numSamples \in PartialCounts,
       io \in {"ok", "short", "openErr", "readErr"} :
        Serve([read |-> "readPartialBinaryFile", file |-> file, io |-> io,
               window |-> <<0, numSamples>>],
              readPartialBinaryFile(file, numSamples, io).status,
              readPartialBinaryFileCalls(file, numSamples, io))

\* An FFT request reads a whole file.
ServeFullRead ==
    \E file \in FirFiles, io \in {"ok", "short", "openErr", "statErr", "readErr"} :
        Serve([read |-> "ReadBinaryFile", file |-> file, io |-> io,
               window |-> <<0, 0>>],
              ReadBinaryFile(file, io).status,
              ReadBinaryFileCalls(file, io))

HandlesInit ==
    /\ pc = "serving"
    /\ arg = None
    /\ ret = None
    /\ loc = [requests |-> 0, calls |-> <<>>, handles |-> {}]

HandlesNext == ServeWindowRead \/ ServePartialRead \/ ServeFullRead

SpecHandles == HandlesInit /\ [][HandlesNext]_vars

-----------------------------------------------------------------------------
(* Properties of dynamicDownsample.                                        *)

Returned == pc = "returned"

SameSeries == ret.times = arg.times /\ ret.values = arg.values

\* A bin has been processed and its locals are in loc.bin.
BinDone == pc \in {"bins", "returned"} /\ loc.bin.start >= 0

\* The bin [start, end) of the input, as sets of indices.
BinRange(start, end) == start..(end - 1)
BinStarts == {s \in 0..(Len(arg.times) - 1) : s % arg.binSize = 0}
BinEnd(start) == Min2(start + arg.binSize, Len(arg.times))

\* The extrema and the mean of the input values over a set of indices,
\* defined without reference to the scan.
IsLeast(v, I) == \A j \in I : ~RLess(At(arg.values, j), v)
IsGreatest(v, I) == \A j \in I : ~RGreater(At(arg.values, j), v)
LeastOf(I) == At(arg.values, CHOOSE i \in I : IsLeast(At(arg.values, i), I))
GreatestOf(I) == At(arg.values, CHOOSE i \in I : IsGreatest(At(arg.values, i), I))
FirstIndexOf(v, I) ==
    CHOOSE i \in I : At(arg.values, i) = v /\ \A j \in I : At(arg.values, j) = v => i <= j
RECURSIVE SumOver(_)
SumOver(I) == IF I = {} THEN R(0)
              ELSE LET i == CHOOSE i \in I : TRUE
                   IN  RAdd(At(arg.values, i), SumOver(I \ {i}))
MeanOver(I) == RDiv(SumOver(I), R(Cardinality(I)))
\* v deviates from the mean over I by more than 5% of the range over I.
Significant(v, I) ==
    RGreater(RMul(R(20), RAbs(RSub(v, MeanOver(I)))),
             RSub(GreatestOf(I), LeastOf(I)))

\* The point (t, v) occurs in the returned series.
InOutput(t, v) == \E k \in 1..Len(ret.times) : ret.times[k] = t /\ ret.values[k] = v

StrictlyIncreasing(ts) == \A k \in 1..(Len(ts) - 1) : RLess(ts[k], ts[k + 1])

\* C1 as claimed: for every binSize >= len(series) the series is returned
\* unchanged.
C1_UnchangedWhenBinCoversSeries ==
    (Returned /\ arg.binSize >= Len(arg.times)) => SameSeries

\* C1 as amended: for binSize >= len(series), a series of at most 2 points is
\* returned unchanged; a longer series is one bin, [0, len), and at most 4
\* points are returned.
C1_UnchangedWhenShort ==
    (Returned /\ arg.binSize >= Len(arg.times)) =>
        IF Len(arg.times) <= 2 THEN SameSeries
        ELSE /\ loc.bin.start = 0
             /\ loc.bin.end = Len(arg.times)
             /\ ret.times = loc.bin.times
             /\ Len(ret.times) <= 4

\* A 2-point series with two different values went through with a binSize
\* that covers it and is more than 1.
C1_Witness ==
    /\ Returned
    /\ Len(arg.times) = 2
    /\ arg.binSize >= 2
    /\ arg.values[1] # arg.values[2]
    /\ SameSeries

\* C2: every bin appends at least 1 and at most 4 points to the output.
C2_BinEmitsOneToFour ==
    BinDone => (Len(loc.bin.times) >= 1 /\ Len(loc.bin.times) <= 4)

\* C4: the points a bin emits before its average point are points of the
\* input inside the bin, at most the average point is added to them, and the
\* point emitted as the minimum (maximum) has the least (greatest) value of
\* the bin.
C4_EmittedPointsAreInputPoints ==
    BinDone =>
        LET b == loc.bin
            I == BinRange(b.start, b.end)
            n == Len(b.indices)
        IN  /\ Len(b.times) \in {n, n + 1}
            /\ Len(b.values) = Len(b.times)
            /\ \A k \in 1..n :
                  /\ b.indices[k] \in I
                  /\ b.times[k] = At(arg.times, b.indices[k])
                  /\ b.values[k] = At(arg.values, b.indices[k])
            /\ \A k \in 1..n :
                  /\ (b.indices[k] = b.minIdx => b.values[k] = LeastOf(I))
                  /\ (b.indices[k] = b.maxIdx => b.values[k] = GreatestOf(I))
            /\ b.minVal = LeastOf(I)
            /\ b.maxVal = GreatestOf(I)

\* A bin emitted its first point, its minimum, its maximum and the average.
C4_Witness ==
    /\ BinDone
    /\ Len(loc.bin.indices) = 3
    /\ Len(loc.bin.times) = 4
    /\ loc.bin.minIdx > loc.bin.maxIdx

\* C5: in every bin, the maximum (the first point that has the greatest
\* value), when it is not the first point of the bin and deviates from the
\* bin's mean by more than 5% of the bin's range, is in the returned series;
\* the same for the minimum.
C5_SignificantExtremaKept ==
    (Returned /\ ~DownsampleNoOp(arg.times, arg.binSize)) =>
        \A s \in BinStarts :
            LET I == BinRange(s, BinEnd(s))
                iMax == FirstIndexOf(GreatestOf(I), I)
                iMin == FirstIndexOf(LeastOf(I), I)
            IN  /\ (iMax # s /\ iMax # iMin /\ Significant(GreatestOf(I), I))
                       => InOutput(At(arg.times, iMax), GreatestOf(I))
                /\ (iMin # s /\ iMin # iMax /\ Significant(LeastOf(I), I))
                       => InOutput(At(arg.times, iMin), LeastOf(I))

\* The example: [(0,1),(1,5),(2,1),(3,1),(4,1)] with binSize 5 returns a
\* series that contains (1,5).
C5_Witness ==
    /\ Returned
    /\ arg.binSize = 5
    /\ arg.times = RatSeq(<<0, 1, 2, 3, 4>>)
    /\ arg.values = RatSeq(<<1, 5, 1, 1, 1>>)
    /\ InOutput(R(1), R(5))

\* C6: with strictly increasing input times, the times emitted so far, and
\* the times returned, are strictly increasing.
C6_OutputTimesIncrease ==
    StrictlyIncreasing(arg.times) =>
        /\ pc = "bins" => StrictlyIncreasing(loc.downsampledTimes)
        /\ Returned => StrictlyIncreasing(ret.times)

\* A series of several bins was returned with an average point that follows
\* kept points of its bin and is followed by points of the next bin.
C6_Witness ==
    /\ Returned
    /\ StrictlyIncreasing(arg.times)
    /\ \E k \in 2..(Len(ret.times) - 1) :
          /\ \A i \in 1..Len(arg.times) : arg.times[i] # ret.times[k]
          /\ \E i \in 1..Len(arg.times) : arg.times[i] = ret.times[k - 1]
          /\ \E i \in 1..Len(arg.times) : arg.times[i] = ret.times[k + 1]

-----------------------------------------------------------------------------
(* Properties of the "plot" request.                                       *)

\* C3: every successful plot reply holds, per file, at most 4 points for
\* each of at most targetResolution bins, whatever the indices and the file
\* length.
C3_PlotPointsBounded ==
    (pc = "replied" /\ ret.type = "plotData") =>
        \A i \in 1..Len(ret.files) :
            Len(ret.files[i].times) <= 4 * targetResolution

-----------------------------------------------------------------------------
(* Properties of resample and stackAndResample.                            *)

\* C7: for len(data) >= 2 and n >= 2, resample returns exactly n points, and
\* returns data itself when n = len(data).
C7_ResampleLength ==
    (Returned /\ loc.strategy = "direct" /\ Len(arg.data) >= 2 /\ arg.nSamples >= 2) =>
        /\ ret.status = "ok"
        /\ Len(ret.value) = arg.nSamples
        /\ (arg.nSamples = Len(arg.data) => ret.value = arg.data)

\* resample returned a 3-point slice of three different values unchanged.
C7_Witness ==
    /\ Returned
    /\ loc.strategy = "direct"
    /\ arg.nSamples = 3
    /\ Len(arg.data) = 3
    /\ Cardinality({arg.data[i] : i \in 1..3}) = 3
    /\ ret.status = "ok"
    /\ ret.value = arg.data

\* C8: resampling a source of length 0 or 1, directly or through
\* stackAndResample, ends in an InsufficientDataError.
C8_ShortSourceIsAnError ==
    (Returned /\ Len(loc.source) <= 1) => ret.status = "InsufficientDataError"

\* C9: a buffer shorter than 2 cycles is resampled whole; a buffer that is
\* long enough but in which fewer than 2 crossings are found has its first
\* min(len, samplesPerCycle) samples resampled; no cycle is stacked in
\* either case.
C9_StackFallsBack ==
    (Returned /\ loc.strategy # "direct") =>
        LET spc == arg.sampleRate \div arg.waveFrequency
            n == Len(arg.data)
        IN  /\ n < 2 * spc =>
                  /\ ret = resample(arg.data, arg.nSamples)
                  /\ loc.stackedCycles = <<>>
                  /\ loc.source = arg.data
            /\ (n >= 2 * spc /\ Len(loc.zeroCrossings) < 2) =>
                  /\ ret = resample(SubSeq(arg.data, 1, Min2(n, spc)), arg.nSamples)
                  /\ loc.stackedCycles = <<>>
                  /\ loc.source = SubSeq(arg.data, 1, Min2(n, spc))

\* A buffer of at least 2 cycles in which one crossing was found had its
\* first cycle, shorter than the buffer, resampled.
C9_Witness ==
    /\ Returned
    /\ loc.strategy = "firstCycle"
    /\ Len(arg.data) > loc.samplesPerCycle
    /\ loc.samplesPerCycle >= 2
    /\ Len(loc.zeroCrossings) = 1
    /\ ret.status = "ok"

-----------------------------------------------------------------------------
(* Properties of generatePerfectSquareWave.                                *)

\* The signal has a sample above and a sample below its mean.
OnBothSides(signal) ==
    /\ \E i \in 1..Len(signal) : RGreater(signal[i], calculateMean(signal))
    /\ \E i \in 1..Len(signal) : RLess(signal[i], calculateMean(signal))

\* The levels of the reference, from the signal alone: the mean of the
\* samples above the overall mean, and the mean of the other samples.
AboveMean(signal) ==
    LET Above(v) == RGreater(v, calculateMean(signal))
    IN  SelectSeq(signal, Above)
NotAboveMean(signal) ==
    LET NotAbove(v) == ~RGreater(v, calculateMean(signal))
    IN  SelectSeq(signal, NotAbove)

\* C10: for a signal of length n with samples on both sides of its mean,
\* the reference has length n, takes exactly the two values high > low, and
\* holds high at the indices [0, n/2) and low at the others if and only if the
\* mean of the first half exceeds the overall mean, the reverse otherwise.
C10_ReferenceIsTwoLevel ==
    (Returned /\ OnBothSides(arg.signal)) =>
        LET signal == arg.signal
            n == Len(signal)
            high == calculateMean(AboveMean(signal))
            low == calculateMean(NotAboveMean(signal))
            firstHigh == RGreater(calculateMean(SubSeq(signal, 1, n \div 2)),
                                  calculateMean(signal))
        IN  /\ ret.status = "ok"
            /\ Len(ret.value) = n
            /\ RGreater(high, low)
            /\ {ret.value[i] : i \in 1..n} = {high, low}
            /\ \A i \in 0..(n - 1) :
                  At(ret.value, i) =
                      IF i < n \div 2
                      THEN (IF firstHigh THEN high ELSE low)
                      ELSE (IF firstHigh THEN low ELSE high)

\* A signal of odd length with a sample equal to its mean and samples on
\* both sides of it got a reference whose first half is the low level.
C10_Witness ==
    /\ Returned
    /\ OnBothSides(arg.signal)
    /\ Len(arg.signal) = 5
    /\ \E i \in 1..5 : arg.signal[i] = calculateMean(arg.signal)
    /\ ret.value[1] = loc.lowValue
    /\ ret.value[3] = loc.highValue
    /\ RLess(ret.value[1], ret.value[3])

-----------------------------------------------------------------------------
(* Properties of the reference synthesis on a one-sided signal.            *)

\* C11: when no sample of a non-empty signal lies above its mean (a constant
\* signal: the above-mean partition is empty), generatePerfectSquareWave
\* fails with DegenerateSignalError instead of returning a reference whose
\* level is a sum divided by the count of an empty partition.
C11_DegenerateSignalIsAnError ==
    (Returned /\ arg.signal # <<>> /\ AboveMean(arg.signal) = <<>>) =>
        ret.status = "DegenerateSignalError"

-----------------------------------------------------------------------------
(* Properties of applyFIRFilter.                                           *)

\* The sum over j in 0..k-1 of c[j] * signal[(i+j) mod N].
RECURSIVE CircularSum(_, _, _, _)
CircularSum(signal, c, i, k) ==
    IF k = 0 THEN R(0)
    ELSE RAdd(CircularSum(signal, c, i, k - 1),
              RMul(At(c, k - 1), At(signal, (i + k - 1) % Len(signal))))

\* C12: for a signal and coefficients c of one length N, element i of
\* applyFIRFilter(signal, c) is the sum over j of c[j] * signal[(i+j) mod N],
\* and the filtered signal is the product A*c of the solver's design matrix
\* (row i = the signal rolled left by i) with c.
C12_FilterIsCircularCorrelation ==
    Returned =>
        LET N == Len(arg.signal)
        IN  /\ ret.status = "ok"
            /\ Len(ret.value) = N
            /\ \A i \in 0..(N - 1) :
                  At(ret.value, i) = CircularSum(arg.signal, arg.coeffs, i, N)
            /\ ret.value = matrixVectorMultiply(DesignMatrix(arg.signal), arg.coeffs)
            /\ \A i \in 0..(N - 1) : \A j \in 0..(N - 1) :
                  At(At(DesignMatrix(arg.signal), i), j) = At(arg.signal, (i + j) % N)

\* A 3-sample signal that is not constant was filtered with coefficients
\* that pick its second and third samples apart: the outputs differ.
C12_Witness ==
    /\ Returned
    /\ Len(arg.signal) = 3
    /\ arg.signal = <<R(1), R(2), R(-1)>>
    /\ arg.coeffs = <<R(0), R(1), R(0)>>
    /\ ret.value = <<R(2), R(-1), R(1)>>

-----------------------------------------------------------------------------
(* Properties of the solver.                                               *)

\* The elimination divided by a pivot equal to zero.
ZeroPivotMet(pivots) == \E i \in 1..Len(pivots) : pivots[i] = R(0)

\* C13: when the Gaussian elimination meets a zero pivot, the solve fails
\* with SingularSystemError, which is the outcome of the FIR computation; no
\* coefficient vector obtained by dividing by that pivot is returned.
C13_ZeroPivotIsAnError ==
    (Returned /\ ret.status # "panic" /\ ZeroPivotMet(loc.pivots)) =>
        ret.status = "SingularSystemError"

\* C14: raising the regularization never makes the solve less stable.  If
\* the elimination of AtA + reg*mean(diag AtA)*I meets no zero pivot at the
\* regularization of the request, it meets none at any larger one; and for a
\* regularization > 0 and a measured waveform that is not all zero no pivot
\* is zero.
C14_RegularizationKeepsPivots ==
    (pc = "applyFIRFilter") =>
        /\ (RGreater(arg.regParam, R(0))
              /\ \E i \in 1..Len(arg.imperfect) : arg.imperfect[i] # R(0))
           => ~ZeroPivotMet(loc.pivots)
        /\ ~ZeroPivotMet(loc.pivots) =>
              \A reg \in Regularizations :
                 RGreater(reg, arg.regParam) =>
                    ~ZeroPivotMet(regularizedLeastSquares(
                                      arg.imperfect, arg.perfect, reg).pivots)

\* The waveform [1, 1], whose unregularized normal equations have a zero
\* second pivot, was solved with a regularization > 0 and met no zero pivot.
C14_Witness ==
    /\ pc = "applyFIRFilter"
    /\ arg.imperfect = <<R(1), R(1)>>
    /\ RGreater(arg.regParam, R(0))
    /\ ZeroPivotMet(regularizedLeastSquares(arg.imperfect, arg.perfect, R(0)).pivots)
    /\ ~ZeroPivotMet(loc.pivots)

\* The determinant of a square matrix, by expansion along its first row.
Minor(m, j) ==
    [i \in 1..(Len(m) - 1) |->
        [k \in 1..(Len(m) - 1) |-> m[i + 1][IF k < j THEN k ELSE k + 1]]]
RECURSIVE Det(_)
Det(m) ==
    IF Len(m) = 0 THEN R(1)
    ELSE IF Len(m) = 1 THEN m[1][1]
    ELSE Accumulate([j \in 1..Len(m) |->
                        RMul(IF j % 2 = 1 THEN m[1][j] ELSE RNeg(m[1][j]),
                             Det(Minor(m, j)))], Len(m))

\* C15: for a measured waveform whose circulant design matrix is invertible,
\* the solve meets no zero pivot at any regularization >= 0, and at
\* regularization 0 filtering the measured waveform with the solved
\* coefficients gives the reference element for element.
C15_SolveThenFilterReproducesReference ==
    (Returned /\ ret.status = "ok"
       /\ Det(DesignMatrix(arg.imperfect)) # R(0)) =>
        /\ ~ZeroPivotMet(loc.pivots)
        /\ \A i \in 1..Len(ret.coefficients) : IsFinite(ret.coefficients[i])
        /\ Len(ret.filtered) = Len(arg.perfect)
        /\ (arg.regParam = R(0)) => ret.filtered = arg.perfect

\* A 3-sample waveform with an invertible design matrix was solved without
\* regularization and the filtered waveform is the reference, which is not
\* the measured waveform.
C15_Witness ==
    /\ Returned
    /\ ret.status = "ok"
    /\ arg.regParam = R(0)
    /\ arg.imperfect = <<R(1), R(1), R(-1)>>
    /\ arg.perfect = <<R(1), R(-1), R(-1)>>
    /\ Det(DesignMatrix(arg.imperfect)) # R(0)
    /\ ret.filtered = arg.perfect

-----------------------------------------------------------------------------
(* Properties of the reads.                                                *)

\* Sample k of a file, from the table of the values that were written to
\* it: the float32 value whose bytes lie at offsets 4k .. 4k+3.
WrittenSample(file, k) ==
    IF file.shape = "bytes"
    THEN (CHOOSE c \in SampleCodes :
             c.bytes = SubSeq(file.bytes, 4 * k + 1, 4 * k + 4)).value
    ELSE R(Sample(file, k))

\* C16: a file of B bytes holds N = floor(B/4) samples (400 bytes hold 100,
\* and GetTotalFileLength sums N over the files).  A window read with
\* 0 <= start < min(end, N) returns times and values of one length,
\* min(end, N) - start when the read returns every byte asked for and the
\* number of complete 4-byte samples read when it returns fewer, with
\* times[i] = start + i and values[i] = sample start + i; no byte past the
\* end of the file is decoded.
C16_WindowReadReturnsTheWindow ==
    (pc = "returned" /\ "startIndex" \in DOMAIN arg
       /\ arg.io \in {"ok", "short"}) =>
        LET file == arg.file
            B == file.size
            N == B \div 4
            start == arg.startIndex
            end == IF arg.endIndex < N THEN arg.endIndex ELSE N
            asked == 4 * (end - start)
            read == IF arg.io = "ok" THEN asked
                    ELSE IF asked > ShortBytes THEN asked - ShortBytes ELSE 0
        IN  /\ GetTotalFileLength(<<file>>, <<"ok">>).totalLength = N
            /\ GetTotalFileLength(<<file, ExampleFile>>, <<"ok", "ok">>).totalLength
                  = N + 100
            /\ (0 <= start /\ start < end) =>
                  /\ ret.status = "ok"
                  /\ Len(ret.times) = Len(ret.values)
                  /\ Len(ret.values) = read \div 4
                  /\ (arg.io = "ok") => Len(ret.values) = end - start
                  /\ \A i \in 0..(Len(ret.values) - 1) :
                        /\ At(ret.times, i) = R(start + i)
                        /\ At(ret.values, i) = WrittenSample(file, start + i)
                  /\ 4 * (start + Len(ret.values)) <= B

\* A file of 3 samples and 2 more bytes was read from sample 1 to its end:
\* two samples came back, the second and the third, which differ.
C16_Witness ==
    /\ pc = "returned"
    /\ "startIndex" \in DOMAIN arg
    /\ arg.io = "ok"
    /\ arg.file.size = 14
    /\ arg.startIndex = 1
    /\ arg.endIndex = 200
    /\ ret.status = "ok"
    /\ ret.times = <<R(1), R(2)>>
    /\ ret.values = <<<<-5, 2>>, <<8585729, 33554432>>>>

\* C17: a read returns a buffer of length 0 only for an empty file.  When
\* the operating system reports no error and returns every byte the file
\* holds in the range asked for, a window read or a partial read of at least
\* one sample that succeeds on a file that is not empty returns at least one
\* sample, and the read of an empty file succeeds with a buffer of length 0.
C17_EmptyBufferOnlyForEmptyFile ==
    (pc = "returned" /\ arg.io = "ok"
       /\ ("startIndex" \in DOMAIN arg
             \/ ("numSamples" \in DOMAIN arg /\ arg.numSamples > 0))) =>
        /\ (arg.file.size > 0 /\ ret.status = "ok") => Len(ret.values) >= 1
        /\ (arg.file.size = 0) => (ret.status = "ok" /\ Len(ret.values) = 0)

\* The full read of a file against the window read of all its samples.
FullReadDecodesAsWindowRead(file) ==
    LET N == file.size \div 4
        full == ReadBinaryFile(file, "ok")
        window == readBinaryFile(file, 0, N, "ok")
    IN  /\ full.status = "ok"
        /\ Len(full.values) = N
        /\ (N > 0) => (window.status = "ok" /\ full.values = window.values)

\* C18: every read path decodes sample k as the 4-byte little-endian float
\* at byte offset 4k: the partial read returns the samples the window read
\* returns, and the full read of a file of B bytes returns exactly
\* floor(B/4) samples, equal element for element to the window read over
\* [0, floor(B/4)).
C18_ReadPathsDecodeIdentically ==
    (pc = "returned" /\ arg.io = "ok") =>
        LET file == arg.file
            N == file.size \div 4
        IN  /\ ("numSamples" \in DOMAIN arg /\ arg.numSamples > 0 /\ N > 0) =>
                  ret.values = readBinaryFile(file, 0, Min2(arg.numSamples, N),
                                              "ok").values
            /\ ("startIndex" \notin DOMAIN arg /\ "numSamples" \notin DOMAIN arg) =>
                  /\ ret.status = "ok"
                  /\ ret.values = ReadBinaryFile(file, "ok").values
                  /\ FullReadDecodesAsWindowRead(file)

-----------------------------------------------------------------------------
(* Properties of ComputeFFT.                                               *)

\* C19: for a non-empty input and a sample rate > 0 the frequency axis and
\* the magnitude axis both have length fftSize/2 + 1, the frequency axis is
\* strictly ascending, bin 0 is at 0 Hz and the last bin is at the Nyquist
\* frequency sampleRate/2.
C19_FrequencyAxisEndsAtNyquist ==
    (Returned /\ arg.data # <<>>) =>
        LET numFreqs == fftSize \div 2 + 1
        IN  /\ ret.status = "ok"
            /\ ret.frequencies.length = numFreqs
            /\ ret.magnitudes.length = numFreqs
            /\ FrequencyOfBin(0, ret.frequencies.sampleRate) = R(0)
            /\ FrequencyOfBin(numFreqs - 1, ret.frequencies.sampleRate)
                  = RDiv(arg.sampleRate, R(2))
            /\ \A i \in 1..(numFreqs - 1) :
                  RLess(FrequencyOfBin(i - 1, ret.frequencies.sampleRate),
                        FrequencyOfBin(i, ret.frequencies.sampleRate))

\* The largest |data[i] - mean(data)|.
CenteredMaxAbs(data) ==
    LET mean == calculateMean(data)
        devs == {RAbs(RSub(data[i], mean)) : i \in 1..Len(data)}
    IN  CHOOSE d \in devs : \A e \in devs : ~RGreater(e, d)

DcOffsets == {R(-2), R(1), R(5)}

\* C20: the amplitude scale applied before the dB conversion is the largest
\* |data[i] - mean(data)|, so that adding one DC offset to every sample
\* leaves every output magnitude unchanged.
C20_ScaleIsOfCenteredInput ==
    (Returned /\ arg.data # <<>>) =>
        /\ ret.scale = CenteredMaxAbs(arg.data)
        /\ \A offset \in DcOffsets :
              ComputeFFT([i \in 1..Len(arg.data) |-> RAdd(arg.data[i], offset)],
                         arg.sampleRate).magnitudes = ret.magnitudes

-----------------------------------------------------------------------------
(* Properties of ProcessFIR and of the FIR requests.                       *)

ProgressSteps == <<20, 40, 60, 80, 100>>

\* ProcessFIR has returned the error of its read.
ReadError == ret.status = "error" /\ ret.message \in {"open", "read"}

\* The stage results ProcessFIR holds once n of its stages have finished.
StagesFinished(n) ==
    /\ (n >= 1 => ~ReadError)
    /\ (n >= 2 => Len(loc.stackedCoil) = FirSamples)
    /\ (n >= 3 => Len(loc.perfectSquare) = FirSamples)
    /\ (n >= 4 => Len(loc.firCoefficients) = FirSamples)
    /\ (n >= 5 => Len(loc.filteredSignal) = FirSamples)

\* The item's read has failed and its error message is being sent.
ReadFailed ==
    /\ pc = "write"
    /\ loc.pending.type = "error"
    /\ ReadError

\* ProcessFIR has returned its result and the terminal message of the item
\* is being sent.
AllStagesDone ==
    /\ pc = "write"
    /\ loc.pending.type \in {"firComplete", "firResults"}

\* C21: within one FIR request the values passed to the progress sink are
\* the first values of 20, 40, 60, 80, 100 in that order, each passed only
\* after its stage (read, stack, reference synthesis, solve, filter) has
\* finished; all five on a run that completes all stages, and none when the
\* read fails.
C21_ProgressStepsInOrder ==
    pc \in {"ProcessFIR", "write", "stack", "reference", "solve", "filter",
            "mkdir", "panicked"} =>
        /\ Len(loc.progress) <= 5
        /\ loc.progress = SubSeq(ProgressSteps, 1, Len(loc.progress))
        /\ StagesFinished(Len(loc.progress))
        /\ (AllStagesDone => loc.progress = ProgressSteps)
        /\ (ReadFailed => loc.progress = <<>>)

\* The terminal message of an item that went through all five stages.
C21_Witness ==
    /\ AllStagesDone
    /\ loc.item = 1
    /\ loc.progress = ProgressSteps
    /\ Item.file.size = 48

\* The handler has ended: it returned, or a panic unwound it.
HandlerEnded == pc \in {"done", "panicked"}

\* C22: whatever the progress sink does (reads late, never reads, loses the
\* connection), the FIR computation is not held up by it: the handler of
\* the request comes to its end.
C22_SinkNeverBlocks == <>HandlerEnded

-----------------------------------------------------------------------------
(* Properties of the file handles.                                         *)

\* C23: every read (windowed, partial, full) opens its file read-only and
\* has closed it when it returns, on every exit path; after any sequence of
\* requests no file handle is open.
C23_NoHandleLeftOpen ==
    /\ loc.handles = {}
    /\ \A i \in 1..Len(loc.calls) :
          /\ loc.calls[i].op \in {"open", "openFailed", "stat", "seek", "read", "close"}
          /\ (loc.calls[i].op \in {"open", "openFailed"} =>
                 i = 1 /\ loc.calls[i].flag = "O_RDONLY")
    /\ (loc.requests > 0 /\ loc.calls[1].op = "open" =>
           loc.calls[Len(loc.calls)].op = "close")

\* A third request in a row, a window read that fails in its seek.
C23_Witness ==
    /\ loc.requests = 3
    /\ arg.read = "readBinaryFile"
    /\ arg.io = "seekErr"
    /\ ret.status = "error"
    /\ loc.calls = <<OpenCall("O_RDONLY", TRUE), FileCall("stat"),
                     FileCall("seek"), FileCall("close")>>

\* C24: a FIR request creates, modifies and deletes nothing in the file
\* system, whether it succeeds or fails: no step of it changes the
\* directories that exist.
C24_FileSystemUntouched == [][loc'.fs = loc.fs]_vars

-----------------------------------------------------------------------------
(* Properties of the stacking of cycles.                                   *)

StackCalled == pc = "returned" /\ loc.strategy # "direct"

\* Cycle j of the stack (j from 1) as the claim describes it: the
\* samplesPerCycle samples from crossing 2(j-1) on.
CycleOfCrossing(j) ==
    SubSeq(arg.data, At(loc.zeroCrossings, 2 * (j - 1)) + 1,
           At(loc.zeroCrossings, 2 * (j - 1)) + loc.samplesPerCycle)

RECURSIVE SumOfCycles(_, _)
SumOfCycles(k, i) ==
    IF k = 0 THEN R(0) ELSE RAdd(SumOfCycles(k - 1, i), CycleOfCrossing(k)[i])

\* The slice handed to resample is the sample-wise average of k cycles,
\* 1 <= k <= 5, each starting at an even-indexed crossing that has a
\* following crossing, samplesPerCycle long and within the buffer.
AverageOfCycles ==
    LET k == Len(loc.stackedCycles)
    IN  /\ loc.strategy = "stacked"
        /\ k >= 1 /\ k <= 5
        /\ \A j \in 1..k :
              /\ 2 * (j - 1) + 1 < Len(loc.zeroCrossings)
              /\ At(loc.zeroCrossings, 2 * (j - 1)) + loc.samplesPerCycle
                     <= Len(arg.data)
              /\ Len(loc.stackedCycles[j]) = loc.samplesPerCycle
              /\ loc.stackedCycles[j] = CycleOfCrossing(j)
        /\ Len(loc.source) = loc.samplesPerCycle
        /\ \A i \in 1..loc.samplesPerCycle :
              loc.source[i] = RDiv(SumOfCycles(k, i), R(k))
        /\ ret = resample(loc.source, arg.nSamples)

\* The buffer holds two cycles and two crossings were found.
StackingApplies ==
    /\ StackCalled
    /\ Len(arg.data) >= 2 * loc.samplesPerCycle
    /\ Len(loc.zeroCrossings) >= 2

\* A cycle starting at the first crossing lies within the buffer.
FirstCycleFits ==
    At(loc.zeroCrossings, 0) + loc.samplesPerCycle <= Len(arg.data)

\* C25 as stated: whenever the buffer has at least 2*samplesPerCycle samples
\* and at least 2 zero crossings are found, the result is the average of k
\* cycles, 1 <= k <= 5.
C25_StackedWheneverTwoCrossings == StackingApplies => AverageOfCycles

\* C25: when the buffer has at least 2*samplesPerCycle samples, at least 2
\* zero crossings are found and the cycle starting at the first crossing
\* lies within the buffer, the stacked result is the sample-wise average of
\* k cycles with 1 <= k <= 5, each starting at an even-indexed crossing that
\* has a following crossing, of length samplesPerCycle and within the
\* buffer; when that first cycle does not fit, nothing is averaged and the
\* first samplesPerCycle samples are resampled.
C25_StackedIsAverageOfCycles ==
    StackingApplies =>
        IF FirstCycleFits THEN AverageOfCycles
        ELSE /\ loc.strategy = "noCycle"
             /\ loc.stackedCycles = <<>>
             /\ loc.source = SubSeq(arg.data, 1, loc.samplesPerCycle)
             /\ ret = resample(loc.source, arg.nSamples)

\* Five cycles are averaged although a sixth pair of crossings has a cycle
\* that fits.
C25_Witness ==
    /\ StackingApplies
    /\ Len(loc.stackedCycles) = 5
    /\ Len(loc.zeroCrossings) >= 12
    /\ At(loc.zeroCrossings, 10) + loc.samplesPerCycle <= Len(arg.data)
    /\ loc.source # loc.stackedCycles[1]

\* The first min(len(buffer), 4*samplesPerCycle) samples of the buffer.
SearchWindow ==
    SubSeq(arg.data, 1, Min2(Len(arg.data), 4 * loc.samplesPerCycle))

\* C26: the crossings found are those of the search window around the mean
\* of the search window itself, so that the samples beyond the window have
\* no influence on them.
C26_MeanIsOfSearchWindow ==
    StackCalled /\ Len(arg.data) >= 2 * loc.samplesPerCycle =>
        loc.zeroCrossings =
            findZeroCrossings(SearchWindow, calculateMean(SearchWindow))

\* The inputs that agree with data on its first TransformSize samples and
\* differ from it, at most, in the samples beyond them.
SamePrefix(data) ==
    {RatSeq(other) : other \in
        {o \in [1..Len(data) -> SpectrumVals] :
            \A i \in 1..Min2(TransformSize, Len(data)) : R(o[i]) = data[i]}}

\* The FFTResult a call returns: its axes and its sample rate, without the
\* locals mean and scale.
FFTResult(r) ==
    [frequencies |-> r.frequencies, magnitudes |-> r.magnitudes,
     sampleRate |-> r.sampleRate]

\* C27: an input longer than the transform size is truncated: two inputs
\* that agree on their first transformSize samples produce identical
\* results, whatever the samples beyond that prefix are.
C27_SamplesBeyondTransformAreIgnored ==
    (pc = "returned.short" /\ Len(arg.data) > TransformSize) =>
        \A other \in SamePrefix(arg.data) :
            FFTResult(ComputeFFTOfSize(other, arg.sampleRate, TransformSize))
                = FFTResult(ret)

-----------------------------------------------------------------------------
(* Properties of dynamicDownsample: the size of its output.                *)

\* C28: for a series with strictly increasing times and a binSize >= 1, each
\* bin emits no more points than it contains, and the series returned has
\* at most as many points as the input.
C28_NeverExpands ==
    (StrictlyIncreasing(arg.times) /\ arg.binSize >= 1) =>
        /\ BinDone => Len(loc.bin.times) <= loc.bin.end - loc.bin.start
        /\ pc = "bins" => Len(loc.downsampledTimes) <= Min2(loc.start, Len(arg.times))
        /\ Returned => (Len(ret.times) <= Len(arg.times)
                        /\ Len(ret.values) = Len(ret.times))

\* A series of several bins was returned in which one bin of 4 points
\* emitted 4 points (its first point, both extrema and the average), and
\* the last bin, of fewer points than binSize, emitted fewer still.
C28_Witness ==
    /\ Returned
    /\ StrictlyIncreasing(arg.times)
    /\ arg.binSize = 4
    /\ Len(arg.times) > 4
    /\ Len(arg.times) % 4 # 0
    /\ Len(ret.times) >= 4
    /\ Len(ret.times) < Len(arg.times)
    /\ LET b == ProcessBin(arg.times, arg.values, arg.binSize, 0)
       IN  Len(b.times) = 4

-----------------------------------------------------------------------------
(* Properties of the messages of the FIR requests.                         *)

\* The positions in the handler's sends of the messages of one type for item.
SendsOf(types, item) ==
    {k \in 1..Len(loc.calls) :
        loc.calls[k].type \in types /\ loc.calls[k].item = item}

\* C29: a reported progress of 100 means the FIR request has succeeded: no
\* call of ProcessFIR both reports progress 100 and returns an error, and
\* the handler sends no error message for an item after its firProgress 100.
C29_FullProgressMeansSuccess ==
    /\ (\E k \in 1..Len(loc.progress) : loc.progress[k] = 100)
          => ret.status # "error"
    /\ \A item \in 1..Len(arg.items) :
          \A k \in SendsOf({"firProgress"}, item) :
              loc.calls[k].progress = 100 =>
                  \A e \in SendsOf({"error"}, item) : e < k

Terminal == {"firComplete", "error"}

\* C30: a "calculateFIR" batch is processed in request order, one item at a
\* time: every message of an item is sent after the terminal message of the
\* item before it, the firProgress messages of an item are sent before its
\* terminal message, and when the handler has ended every item of the batch,
\* failed items and those after them included, has exactly one terminal
\* message (firComplete or error).
C30_BatchInRequestOrder ==
    arg.type = "calculateFIR" =>
        \A item \in 1..Len(arg.items) :
            /\ \A t \in SendsOf(Terminal, item) :
                  \A p \in SendsOf({"firProgress"}, item) : p < t
            /\ \A k \in SendsOf(Terminal \cup {"firProgress"}, item) :
                  /\ \A j \in 1..(k - 1) : loc.calls[j].item <= item
                  /\ item > 1 =>
                        \E t \in SendsOf(Terminal, item - 1) : t < k
            /\ HandlerEnded => Cardinality(SendsOf(Terminal, item)) = 1

=============================================================================
